---- MODULE Spec2Model ----
(***************************************************************************)
(* A model of gb-core (crates/gb-core/src/lib.rs): the SM83 interpreter,   *)
(* the bus, the MBC, the PPU mode machine, the timer and the orchestrator  *)
(* (GbCore::step, run_frame, save_state, load_state).                      *)
(*                                                                         *)
(* The core is deterministic; what varies is the cartridge image and what  *)
(* the host calls.  The image is the input of the model: each step draws   *)
(* the bytes the image holds at PC, PC+1 and PC+2 from bounded menus, and  *)
(* every other byte of the image is zero (the images the repository's own  *)
(* runners build: vec![0u8; 0x8000] plus a program).  Memory arrays are    *)
(* kept at a bounded set of cells; a step that would write another cell is *)
(* outside the bound and is not taken, so every cell that is not kept      *)
(* still holds the zero it was constructed with.                           *)
(*                                                                         *)
(* The APU and the framebuffer are written by step_subsystems but read by  *)
(* nothing in the core; they are not part of this state.                   *)
(***************************************************************************)
EXTENDS Integers, Sequences, FiniteSets, TLC

\* ---------------------------------------------------------------- words
U8  == 256
U16 == 65536

RECURSIVE BitAnd(_, _)
BitAnd(a, b) ==
  IF a = 0 \/ b = 0 THEN 0
  ELSE (a % 2) * (b % 2) + 2 * BitAnd(a \div 2, b \div 2)

RECURSIVE BitOr(_, _)
BitOr(a, b) ==
  IF a = 0 THEN b
  ELSE IF b = 0 THEN a
  ELSE (IF a % 2 = 1 \/ b % 2 = 1 THEN 1 ELSE 0) + 2 * BitOr(a \div 2, b \div 2)

RECURSIVE BitXor(_, _)
BitXor(a, b) ==
  IF a = 0 THEN b
  ELSE IF b = 0 THEN a
  ELSE ((a + b) % 2) + 2 * BitXor(a \div 2, b \div 2)

\* bit n of x
Bit(x, n) == (x \div (2 ^ n)) % 2
\* x & !mask, for x within the width of mask's complement
BitClear(x, mask) == x - BitAnd(x, mask)
\* u8 / u16 wrapping arithmetic
Wrap8(x)  == x % U8
Wrap16(x) == x % U16
\* `v as i8 as i16` then wrapping_add_signed on a u16
AddSigned16(pc, v) == IF v >= 128 THEN Wrap16(pc + v - 256 + U16) ELSE Wrap16(pc + v)
\* the index of the highest set bit of a non-zero byte
leading_bit(x) == CHOOSE b \in 0 .. 7 : x \div (2 ^ b) = 1

\* u8::trailing_zeros of a non-zero value
RECURSIVE trailing_zeros(_)
trailing_zeros(x) == IF x % 2 = 1 THEN 0 ELSE 1 + trailing_zeros(x \div 2)

\* ---------------------------------------------------------------- constants
SCANLINES        == 154
DOTS_PER_LINE    == 456
CYCLES_PER_FRAME == SCANLINES * DOTS_PER_LINE
PPU_MODE2_CYCLES == 80
PPU_MODE3_CYCLES == 172
PPU_MODE0_CYCLES == 204
PPU_VBLANK_LINE  == 144
LCD_WIDTH        == 160
LCD_HEIGHT       == 144

\* PpuMode as its discriminant (`self.mode as u8`)
HBlank  == 0
VBlank  == 1
OamScan == 2
Drawing == 3

\* ---------------------------------------------------------------- Registers
Registers_default ==
  [a |-> 0, f |-> 0, b |-> 0, c |-> 0, d |-> 0, e |-> 0, h |-> 0, l |-> 0,
   sp |-> 0, pc |-> 0]

af(r) == r.a * 256 + r.f
bc(r) == r.b * 256 + r.c
de(r) == r.d * 256 + r.e
hl(r) == r.h * 256 + r.l

set_af(r, v) == [r EXCEPT !.a = (v \div 256) % 256, !.f = BitAnd(v % 256, 240)]
set_bc(r, v) == [r EXCEPT !.b = (v \div 256) % 256, !.c = v % 256]
set_de(r, v) == [r EXCEPT !.d = (v \div 256) % 256, !.e = v % 256]
set_hl(r, v) == [r EXCEPT !.h = (v \div 256) % 256, !.l = v % 256]

flag_z(r) == BitAnd(r.f, 128) # 0
flag_n(r) == BitAnd(r.f, 64) # 0
flag_h(r) == BitAnd(r.f, 32) # 0
flag_c(r) == BitAnd(r.f, 16) # 0

\* if v { f |= m } else { f &= !m }
set_flag(r, m, v) ==
  [r EXCEPT !.f = IF v THEN BitOr(r.f, m) ELSE BitClear(r.f, m)]
set_flag_z(r, v) == set_flag(r, 128, v)
set_flag_n(r, v) == set_flag(r, 64, v)
set_flag_h(r, v) == set_flag(r, 32, v)
\* set_flag_c writing bit 0 of F
set_flag_c_low(r, v) == set_flag(r, 1, v)
set_flag_c(r, v) == set_flag(r, 16, v)
\* the four flags at once, in the order the helpers set them
set_znhc(r, z, n, h, c) ==
  set_flag_c(set_flag_h(set_flag_n(set_flag_z(r, z), n), h), c)

\* ---------------------------------------------------------------- MBC
Kinds == {"RomOnly", "Mbc1", "Mbc2", "Mbc3", "Mbc5", "Unknown"}

\* an MBC that starts with its RAM enabled
Mbc_new_enabled(kind) ==
  [kind |-> kind, rom_bank |-> 1, ram_bank |-> 0, ram_enable |-> TRUE,
   mode |-> 0, upper_bits |-> 0,
   rtc_reg |-> <<0, 0, 0, 0, 0>>, rtc_latch |-> <<0, 0, 0, 0, 0>>,
   rtc_latch_state |-> 0, rtc_sel |-> 255]

Mbc_new(kind) ==
  [kind |-> kind, rom_bank |-> 1, ram_bank |-> 0, ram_enable |-> FALSE,
   mode |-> 0, upper_bits |-> 0,
   rtc_reg |-> <<0, 0, 0, 0, 0>>, rtc_latch |-> <<0, 0, 0, 0, 0>>,
   rtc_latch_state |-> 0, rtc_sel |-> 255]

\* the low five bits of an MBC1 bank number, zero let through
mbc1_low_raw(val) == BitAnd(val, 31)

\* Mbc::write, arm Mbc1 0x2000-0x3FFF: `if b == 0 { 1 } else { b }`
mbc1_low(val) == IF BitAnd(val, 31) = 0 THEN 1 ELSE BitAnd(val, 31)

\* Mbc::write, arm Mbc1
Mbc1_write(m, addr, val) ==
  IF addr <= 8191 THEN [m EXCEPT !.ram_enable = (BitAnd(val, 15) = 10)]
  ELSE IF addr <= 16383 THEN
    [m EXCEPT !.rom_bank = BitOr(BitAnd(m.rom_bank, 96), mbc1_low(val))]
  ELSE IF addr <= 24575 THEN
    LET ub == BitAnd(val, 3)
    IN IF m.mode = 0
       THEN [m EXCEPT !.upper_bits = ub,
                      !.rom_bank = BitOr(BitAnd(m.rom_bank, 31), ub * 32)]
       ELSE [m EXCEPT !.upper_bits = ub, !.ram_bank = ub]
  ELSE [m EXCEPT !.mode = BitAnd(val, 1)]

\* an MBC3 that takes 0x0D for an RTC register as well
Mbc3_write_wide(m, addr, val) ==
  IF addr <= 8191 THEN [m EXCEPT !.ram_enable = (BitAnd(val, 15) = 10)]
  ELSE IF addr <= 16383 THEN
    LET b == BitAnd(val, 127)
    IN [m EXCEPT !.rom_bank = IF b = 0 THEN 1 ELSE b]
  ELSE IF addr <= 24575 THEN
    IF val <= 7 THEN [m EXCEPT !.ram_bank = val, !.rtc_sel = 255]
    ELSE IF val >= 8 /\ val <= 13 THEN [m EXCEPT !.rtc_sel = val - 8]
    ELSE m
  ELSE
    IF m.rtc_latch_state = 0 /\ val = 0 THEN [m EXCEPT !.rtc_latch_state = 1]
    ELSE IF m.rtc_latch_state = 1 /\ val = 1
         THEN [m EXCEPT !.rtc_latch = m.rtc_reg, !.rtc_latch_state = 0]
    ELSE [m EXCEPT !.rtc_latch_state = 0]

\* Mbc::write, arm Mbc3
Mbc3_write(m, addr, val) ==
  IF addr <= 8191 THEN [m EXCEPT !.ram_enable = (BitAnd(val, 15) = 10)]
  ELSE IF addr <= 16383 THEN
    LET b == BitAnd(val, 127)
    IN [m EXCEPT !.rom_bank = IF b = 0 THEN 1 ELSE b]
  ELSE IF addr <= 24575 THEN
    IF val <= 7 THEN [m EXCEPT !.ram_bank = val, !.rtc_sel = 255]
    ELSE IF val >= 8 /\ val <= 12 THEN [m EXCEPT !.rtc_sel = val - 8]
    ELSE m
  ELSE
    IF m.rtc_latch_state = 0 /\ val = 0 THEN [m EXCEPT !.rtc_latch_state = 1]
    ELSE IF m.rtc_latch_state = 1 /\ val = 1
         THEN [m EXCEPT !.rtc_latch = m.rtc_reg, !.rtc_latch_state = 0]
    ELSE [m EXCEPT !.rtc_latch_state = 0]

\* Mbc::write, arm Mbc5 (addr <= 0x5FFF; above it the arm returns false)
Mbc5_write(m, addr, val) ==
  IF addr <= 8191 THEN [m EXCEPT !.ram_enable = (BitAnd(val, 15) = 10)]
  ELSE IF addr <= 12287 THEN [m EXCEPT !.rom_bank = BitOr(BitAnd(m.rom_bank, 256), val)]
  ELSE IF addr <= 16383
       THEN [m EXCEPT !.rom_bank = BitOr(BitAnd(m.rom_bank, 255), BitAnd(val, 1) * 256)]
  ELSE IF addr <= 24575 THEN [m EXCEPT !.ram_bank = BitAnd(val, 15)]
  ELSE m

\* Mbc::write: the bool it returns (the write was taken by the MBC)
Mbc_handled(m, addr) ==
  CASE m.kind = "Mbc1" -> addr <= 32767
    [] m.kind = "Mbc3" -> addr <= 32767
    [] m.kind = "Mbc5" -> addr <= 24575
    [] OTHER -> FALSE

\* Mbc::write: the state it leaves
Mbc_write(m, addr, val) ==
  IF ~Mbc_handled(m, addr) THEN m
  ELSE CASE m.kind = "Mbc1" -> Mbc1_write(m, addr, val)
         [] m.kind = "Mbc3" -> Mbc3_write(m, addr, val)
         [] m.kind = "Mbc5" -> Mbc5_write(m, addr, val)
         [] OTHER -> m

\* a rom_addr without banking
rom_addr_flat(m, addr) == addr

rom_addr(m, addr) ==
  IF addr <= 16383 THEN addr
  ELSE IF addr <= 32767 THEN m.rom_bank * 16384 + (addr - 16384)
  ELSE addr

\* ---------------------------------------------------------------- Timer
Timer_default ==
  [div |-> 0, tima |-> 0, tma |-> 0, tac |-> 0,
   div_counter |-> 0, tima_counter |-> 0, overflow_irq |-> FALSE]

\* a timer with the 4096 Hz period whatever TAC selects
Timer_period_slow(tac) == 1024

Timer_period(tac) ==
  CASE BitAnd(tac, 3) = 0 -> 1024
    [] BitAnd(tac, 3) = 1 -> 16
    [] BitAnd(tac, 3) = 2 -> 64
    [] OTHER -> 256

\* the `while self.tima_counter >= period` loop of Timer::step
RECURSIVE Timer_ticks(_, _)
Timer_ticks(t, period) ==
  IF t.tima_counter < period THEN t
  ELSE Timer_ticks(
         IF t.tima = 255
         THEN [t EXCEPT !.tima_counter = @ - period, !.tima = t.tma, !.overflow_irq = TRUE]
         ELSE [t EXCEPT !.tima_counter = @ - period, !.tima = @ + 1],
         period)

Timer_step(t, cycles) ==
  LET dc == Wrap16(t.div_counter + cycles)
      t1 == [t EXCEPT !.overflow_irq = FALSE, !.div_counter = dc, !.div = dc \div 256]
  IN IF BitAnd(t1.tac, 4) = 0 THEN t1
     ELSE Timer_ticks([t1 EXCEPT !.tima_counter = @ + cycles], Timer_period(t1.tac))

Timer_write(t, r, v) ==
  CASE r = 4 -> [t EXCEPT !.div_counter = 0, !.div = 0]
    [] r = 5 -> [t EXCEPT !.tima = v]
    [] r = 6 -> [t EXCEPT !.tma = v]
    [] r = 7 -> [t EXCEPT !.tac = BitAnd(v, 7)]
    [] OTHER -> t

Timer_read(t, r) ==
  CASE r = 4 -> t.div
    [] r = 5 -> t.tima
    [] r = 6 -> t.tma
    [] r = 7 -> t.tac
    [] OTHER -> 255

\* ---------------------------------------------------------------- PPU
Ppu_new ==
  [mode |-> OamScan, dot |-> 0, ly |-> 0, lyc |-> 0,
   lcdc |-> 145, stat |-> 0, scy |-> 0, scx |-> 0,
   wy |-> 0, wx |-> 0, wlc |-> 0,
   pal_bg |-> 252, pal_obj0 |-> 255, pal_obj1 |-> 255,
   frame_ready |-> FALSE, stat_irq |-> FALSE, vblank_irq |-> FALSE]

check_lyc(p) ==
  IF p.ly = p.lyc
  THEN LET s == BitOr(p.stat, 4)
       IN [p EXCEPT !.stat = s,
                    !.stat_irq = IF BitAnd(s, 64) # 0 THEN TRUE ELSE p.stat_irq]
  ELSE [p EXCEPT !.stat = BitClear(p.stat, 4)]

\* render_scanline, for the state it leaves besides the framebuffer: the window
\* line counter
render_scanline(p) ==
  LET wx7 == IF p.wx >= 7 THEN p.wx - 7 ELSE 0
  IN IF p.ly >= LCD_HEIGHT THEN p
     ELSE IF BitAnd(p.lcdc, 32) # 0 /\ p.ly >= p.wy /\ wx7 < LCD_WIDTH
          THEN [p EXCEPT !.wlc = Wrap8(p.wlc + 1)]
          ELSE p

\* stat_irq = true when the STAT enable bit `m` is set
stat_raise(p, m) == IF BitAnd(p.stat, m) # 0 THEN [p EXCEPT !.stat_irq = TRUE] ELSE p

\* Ppu::step HBlank arm: self.ly >= PPU_VBLANK_LINE as u8
vblank_line_after(ly) == ly > PPU_VBLANK_LINE

vblank_line(ly) == ly >= PPU_VBLANK_LINE

Ppu_step_mode(p) ==
  CASE p.mode = OamScan ->
         IF p.dot >= PPU_MODE2_CYCLES
         THEN [p EXCEPT !.dot = @ - PPU_MODE2_CYCLES, !.mode = Drawing]
         ELSE p
    [] p.mode = Drawing ->
         IF p.dot >= PPU_MODE3_CYCLES
         THEN stat_raise([render_scanline([p EXCEPT !.dot = @ - PPU_MODE3_CYCLES])
                            EXCEPT !.mode = HBlank], 8)
         ELSE p
    [] p.mode = HBlank ->
         IF p.dot >= PPU_MODE0_CYCLES
         THEN LET q == check_lyc([p EXCEPT !.dot = @ - PPU_MODE0_CYCLES, !.ly = @ + 1])
              IN IF vblank_line(q.ly)
                 THEN stat_raise([q EXCEPT !.mode = VBlank, !.vblank_irq = TRUE,
                                           !.frame_ready = TRUE], 16)
                 ELSE stat_raise([q EXCEPT !.mode = OamScan], 32)
         ELSE p
    [] OTHER ->
         IF p.dot >= DOTS_PER_LINE
         THEN LET q == check_lyc([p EXCEPT !.dot = @ - DOTS_PER_LINE, !.ly = @ + 1])
              IN IF q.ly > 153
                 THEN stat_raise([q EXCEPT !.ly = 0, !.wlc = 0, !.mode = OamScan,
                                           !.frame_ready = FALSE], 32)
                 ELSE q
         ELSE p

Ppu_step(p, cycles) ==
  IF BitAnd(p.lcdc, 128) = 0 THEN p
  ELSE LET q == Ppu_step_mode([p EXCEPT !.stat_irq = FALSE, !.vblank_irq = FALSE,
                                        !.dot = @ + cycles])
       IN [q EXCEPT !.stat = BitOr(BitAnd(q.stat, 252), q.mode)]

Ppu_read_reg(p, r) ==
  CASE r = 64 -> p.lcdc
    [] r = 65 -> BitOr(p.stat, 128)
    [] r = 66 -> p.scy
    [] r = 67 -> p.scx
    [] r = 68 -> p.ly
    [] r = 69 -> p.lyc
    [] r = 71 -> p.pal_bg
    [] r = 72 -> p.pal_obj0
    [] r = 73 -> p.pal_obj1
    [] r = 74 -> p.wy
    [] r = 75 -> p.wx
    [] OTHER -> 255

\* a STAT that takes the written byte whole
Ppu_write_reg_whole(p, r, v) ==
  IF r = 64 THEN [p EXCEPT !.lcdc = v] ELSE [p EXCEPT !.stat = v]

Ppu_write_reg(p, r, v) ==
  CASE r = 64 -> [p EXCEPT !.lcdc = v]
    [] r = 65 -> [p EXCEPT !.stat = BitOr(BitAnd(p.stat, 135), BitAnd(v, 120))]
    [] r = 66 -> [p EXCEPT !.scy = v]
    [] r = 67 -> [p EXCEPT !.scx = v]
    [] r = 69 -> [p EXCEPT !.lyc = v]
    [] r = 71 -> [p EXCEPT !.pal_bg = v]
    [] r = 72 -> [p EXCEPT !.pal_obj0 = v]
    [] r = 73 -> [p EXCEPT !.pal_obj1 = v]
    [] r = 74 -> [p EXCEPT !.wy = v]
    [] r = 75 -> [p EXCEPT !.wx = v]
    [] OTHER -> p

\* ---------------------------------------------------------------- Cartridge
\* CartridgeKind::from_header_byte (Unknown(other) without its payload)
from_header_byte(b) ==
  CASE b = 0 -> "RomOnly"
    [] b >= 1 /\ b <= 3 -> "Mbc1"
    [] b >= 5 /\ b <= 6 -> "Mbc2"
    [] b >= 15 /\ b <= 19 -> "Mbc3"
    [] b >= 25 /\ b <= 30 -> "Mbc5"
    [] OTHER -> "Unknown"

\* Cartridge::from_bytes: ram_size_kb from header byte 0x149
ram_size_kb(b) ==
  CASE b = 2 -> 8
    [] b = 3 -> 32
    [] b = 4 -> 128
    [] b = 5 -> 64
    [] OTHER -> 0

\* The cells of each memory array the model keeps (offsets into the array).
HramCells == {0} \cup (122 .. 126)
WramCells == {<<b, 0>> : b \in 0 .. 7}
VramCells == {<<0, 0>>, <<1, 0>>}
OamCells  == {0, 159}
RamCells  == {0, 8192}

\* A cartridge image: its length, the two header bytes the core reads, and the
\* bytes at the instruction being fetched (`code`: <<offset, byte>> pairs); every
\* other byte is zero.
Image(len, kind_byte, ram_byte) ==
  [len |-> len, kind_byte |-> kind_byte, ram_byte |-> ram_byte, code |-> << >>]

\* self.rom.get(m).copied().unwrap_or(0xFF)
Rom_get(rom, m) ==
  IF m >= rom.len THEN 255
  ELSE IF \E i \in 1 .. Len(rom.code) : rom.code[i][1] = m
       THEN rom.code[CHOOSE i \in 1 .. Len(rom.code) : rom.code[i][1] = m][2]
  ELSE IF m = 327 THEN rom.kind_byte
  ELSE IF m = 329 THEN rom.ram_byte
  ELSE 0

\* ---------------------------------------------------------------- APU
\* The channels and the frame sequencer, without the sample buffer and its
\* sample timer (the samples feed nothing back) and without the wave RAM.
Square_default ==
  [nr0 |-> 0, nr1 |-> 0, nr2 |-> 0, nr3 |-> 0, nr4 |-> 0,
   enabled |-> FALSE, freq_timer |-> 0, duty_pos |-> 0,
   volume |-> 0, env_timer |-> 0, len_timer |-> 0,
   sweep_shadow |-> 0, sweep_timer |-> 0, sweep_enabled |-> FALSE]

\* the 11-bit frequency held in NRx3 and the low three bits of NRx4
freq_of(nr3, nr4) == BitAnd(nr4, 7) * 256 + nr3

Square_period(s) == (2048 - freq_of(s.nr3, s.nr4)) * 4

\* n calls of Square::tick: the timer counts down and, found at zero, is
\* reloaded while the duty position moves on
RECURSIVE Square_tick(_, _)
Square_tick(s, n) ==
  IF n = 0 THEN s
  ELSE IF s.freq_timer >= n THEN [s EXCEPT !.freq_timer = @ - n]
  ELSE Square_tick([s EXCEPT !.freq_timer = Square_period(s),
                             !.duty_pos = BitAnd(@ + 1, 7)],
                   n - s.freq_timer - 1)

Square_trigger(s) ==
  [s EXCEPT !.enabled = TRUE, !.freq_timer = Square_period(s),
            !.volume = BitAnd(s.nr2 \div 16, 15), !.env_timer = BitAnd(s.nr2, 7),
            !.len_timer = IF BitAnd(s.nr1, 63) = 0 THEN 64 ELSE 64 - BitAnd(s.nr1, 63)]

Wave_default ==
  [enabled |-> FALSE, nr0 |-> 0, nr1 |-> 0, nr2 |-> 0, nr3 |-> 0, nr4 |-> 0,
   pos |-> 0, freq_timer |-> 0]

RECURSIVE Wave_tick(_, _)
Wave_tick(w, n) ==
  IF n = 0 THEN w
  ELSE IF w.freq_timer >= n THEN [w EXCEPT !.freq_timer = @ - n]
  ELSE Wave_tick([w EXCEPT !.freq_timer = (2048 - freq_of(w.nr3, w.nr4)) * 2,
                           !.pos = BitAnd(@ + 1, 31)],
                 n - w.freq_timer - 1)

Noise_default ==
  [enabled |-> FALSE, nr1 |-> 0, nr2 |-> 0, nr3 |-> 0, nr4 |-> 0,
   lfsr |-> 0, freq_timer |-> 0, volume |-> 0, env_timer |-> 0]

\* the shift register after one clock of NoiseChannel::tick
lfsr_next(lfsr, nr3) ==
  LET x == BitXor(BitAnd(lfsr, 1), BitAnd(lfsr \div 2, 1))
      l == BitOr(lfsr \div 2, x * 16384)
  IN IF BitAnd(nr3, 8) # 0 THEN BitOr(BitClear(l, 64), x * 64) ELSE l

RECURSIVE Noise_tick(_, _)
Noise_tick(c, n) ==
  IF n = 0 THEN c
  ELSE IF c.freq_timer >= n THEN [c EXCEPT !.freq_timer = @ - n]
  ELSE LET r == BitAnd(c.nr3, 7)
           div == IF r = 0 THEN 8 ELSE r * 16
       IN Noise_tick([c EXCEPT !.freq_timer = div * 2 ^ (c.nr3 \div 16),
                               !.lfsr = lfsr_next(c.lfsr, c.nr3)],
                     n - c.freq_timer - 1)

Noise_trigger(c) ==
  [c EXCEPT !.enabled = TRUE, !.lfsr = 32767, !.volume = BitAnd(c.nr2 \div 16, 15)]

Apu_default ==
  [power |-> FALSE, master_vol |-> 0, nr51 |-> 255,
   sq1 |-> Square_default, sq2 |-> Square_default,
   wave |-> Wave_default, noise |-> Noise_default,
   fs_counter |-> 0, wave_len |-> 256, noise_len |-> 64, fs_div |-> 0]

\* Apu::step: every channel ticks once per cycle
Apu_step(a, cycles) ==
  [a EXCEPT !.sq1 = Square_tick(@, cycles), !.sq2 = Square_tick(@, cycles),
            !.wave = Wave_tick(@, cycles), !.noise = Noise_tick(@, cycles)]

Apu_write_reg(a, r, v) ==
  CASE r = 16 -> [a EXCEPT !.sq1.nr0 = v]
    [] r = 17 -> [a EXCEPT !.sq1.nr1 = v]
    [] r = 18 -> [a EXCEPT !.sq1.nr2 = v]
    [] r = 19 -> [a EXCEPT !.sq1.nr3 = v]
    [] r = 20 -> LET s == [a.sq1 EXCEPT !.nr4 = v]
                 IN [a EXCEPT !.sq1 = IF BitAnd(v, 128) # 0 THEN Square_trigger(s) ELSE s]
    [] r = 22 -> [a EXCEPT !.sq2.nr1 = v]
    [] r = 23 -> [a EXCEPT !.sq2.nr2 = v]
    [] r = 24 -> [a EXCEPT !.sq2.nr3 = v]
    [] r = 25 -> LET s == [a.sq2 EXCEPT !.nr4 = v]
                 IN [a EXCEPT !.sq2 = IF BitAnd(v, 128) # 0 THEN Square_trigger(s) ELSE s]
    [] r = 26 -> [a EXCEPT !.wave.nr0 = v]
    [] r = 27 -> [a EXCEPT !.wave.nr1 = v]
    [] r = 28 -> [a EXCEPT !.wave.nr2 = v]
    [] r = 29 -> [a EXCEPT !.wave.nr3 = v]
    [] r = 30 -> [a EXCEPT !.wave.nr4 = v,
                           !.wave.enabled = IF BitAnd(v, 128) # 0 THEN TRUE ELSE @]
    [] r = 32 -> [a EXCEPT !.noise.nr1 = v]
    [] r = 33 -> [a EXCEPT !.noise.nr2 = v]
    [] r = 34 -> [a EXCEPT !.noise.nr3 = v]
    [] r = 35 -> LET c == [a.noise EXCEPT !.nr4 = v]
                 IN [a EXCEPT !.noise = IF BitAnd(v, 128) # 0 THEN Noise_trigger(c) ELSE c]
    [] r = 36 -> [a EXCEPT !.master_vol = v]
    [] r = 37 -> [a EXCEPT !.nr51 = v]
    [] r = 38 -> [a EXCEPT !.power = (BitAnd(v, 128) # 0)]
    [] OTHER -> a

\* one length clock of a channel: its NRx4, its counter, its enable
len_tick(nr4, len, en) ==
  IF BitAnd(nr4, 64) # 0 /\ len > 0
  THEN <<len - 1, IF len - 1 = 0 THEN FALSE ELSE en>>
  ELSE <<len, en>>

clock_len(a) ==
  LET s1 == len_tick(a.sq1.nr4, a.sq1.len_timer, a.sq1.enabled)
      s2 == len_tick(a.sq2.nr4, a.sq2.len_timer, a.sq2.enabled)
      w  == len_tick(a.wave.nr4, a.wave_len, a.wave.enabled)
      n  == len_tick(a.noise.nr4, a.noise_len, a.noise.enabled)
  IN [a EXCEPT !.sq1.len_timer = s1[1], !.sq1.enabled = s1[2],
               !.sq2.len_timer = s2[1], !.sq2.enabled = s2[2],
               !.wave_len = w[1], !.wave.enabled = w[2],
               !.noise_len = n[1], !.noise.enabled = n[2]]

clock_sweep(a) ==
  LET period == BitAnd(a.sq1.nr0 \div 16, 7)
      shift  == BitAnd(a.sq1.nr0, 7)
      st     == IF a.sq1.sweep_timer > 0 THEN a.sq1.sweep_timer - 1 ELSE 0
      freq   == a.sq1.sweep_shadow
      delta  == freq \div (2 ^ shift)
      nf     == IF BitAnd(a.sq1.nr0, 8) # 0 THEN Wrap16(freq - delta + U16)
                ELSE freq + delta
  IN IF period = 0 THEN a
     ELSE IF st # 0 THEN [a EXCEPT !.sq1.sweep_timer = st]
     ELSE IF shift # 0 /\ a.sq1.sweep_enabled
          THEN IF nf <= 2047
               THEN [a EXCEPT !.sq1.sweep_timer = period, !.sq1.sweep_shadow = nf,
                              !.sq1.nr4 = BitOr(BitAnd(@, 248), BitAnd(nf \div 256, 7)),
                              !.sq1.nr3 = BitAnd(nf, 255)]
               ELSE [a EXCEPT !.sq1.sweep_timer = period, !.sq1.enabled = FALSE]
          ELSE [a EXCEPT !.sq1.sweep_timer = period]

\* the local fn tick of clock_env: <<volume, env_timer>> after one envelope clock
env_tick(v, t, nr2) ==
  LET t1 == IF t > 0 THEN t - 1 ELSE 0
      p  == BitAnd(nr2, 7)
  IN IF t1 # 0 THEN <<v, t1>>
     ELSE <<IF BitAnd(nr2, 8) # 0 THEN (IF v < 15 THEN v + 1 ELSE v)
            ELSE (IF v > 0 THEN v - 1 ELSE v),
            IF p # 0 THEN p ELSE 8>>

clock_env(a) ==
  LET s1 == env_tick(a.sq1.volume, a.sq1.env_timer, a.sq1.nr2)
      s2 == env_tick(a.sq2.volume, a.sq2.env_timer, a.sq2.nr2)
      n  == env_tick(a.noise.volume, a.noise.env_timer, a.noise.nr2)
  IN [a EXCEPT !.sq1.volume = s1[1], !.sq1.env_timer = s1[2],
               !.sq2.volume = s2[1], !.sq2.env_timer = s2[2],
               !.noise.volume = n[1], !.noise.env_timer = n[2]]

frame_seq_step(a) ==
  LET s  == BitAnd(a.fs_counter + 1, 7)
      a0 == [a EXCEPT !.fs_counter = s]
      a1 == IF BitAnd(s, 1) = 0 THEN clock_len(a0) ELSE a0
      a2 == IF s = 2 \/ s = 6 THEN clock_sweep(a1) ELSE a1
  IN IF s = 7 THEN clock_env(a2) ELSE a2

\* the `while self.fs_div >= 8192` loop of Apu::step_with_fs
RECURSIVE fs_drain(_)
fs_drain(a) ==
  IF a.fs_div < 8192 THEN a
  ELSE fs_drain(frame_seq_step([a EXCEPT !.fs_div = @ - 8192]))

Apu_step_with_fs(a, cycles) ==
  fs_drain([Apu_step(a, cycles) EXCEPT !.fs_div = @ + cycles])

\* ---------------------------------------------------------------- Bus
Bus_new(rom) ==
  [rom |-> rom,
   ram_len |-> ram_size_kb(rom.ram_byte) * 1024,
   ram |-> [c \in RamCells |-> 0],
   vram |-> [c \in VramCells |-> 0], vram_bank |-> 0,
   wram |-> [c \in WramCells |-> 0], wram_bank |-> 1,
   hram |-> [c \in HramCells |-> 0], oam |-> [c \in OamCells |-> 0],
   ie |-> 0, if_reg |-> 0,
   mbc |-> Mbc_new(from_header_byte(rom.kind_byte)),
   ppu |-> Ppu_new, apu |-> Apu_default, timer |-> Timer_default, joypad |-> 255,
   double_speed |-> FALSE, speed_switch_armed |-> FALSE,
   bg_cpal |-> [i \in 0 .. 63 |-> 255], bg_cps |-> 0,
   obj_cpal |-> [i \in 0 .. 63 |-> 0], obj_cps |-> 0,
   \* a write went to a cell the model does not keep
   oob |-> FALSE]

\* a kept cell's value; a cell that is not kept holds zero
Cell(arr, cells, c) == IF c \in cells THEN arr[c] ELSE 0

Bus_read(b, addr) ==
  CASE addr <= 32767 -> Rom_get(b.rom, rom_addr(b.mbc, addr))
    [] addr >= 32768 /\ addr <= 40959 ->
         Cell(b.vram, VramCells, <<b.vram_bank, addr - 32768>>)
    [] addr >= 40960 /\ addr <= 49151 ->
         IF b.mbc.ram_enable
         THEN IF b.mbc.kind = "Mbc3" /\ b.mbc.rtc_sel # 255
              THEN b.mbc.rtc_latch[b.mbc.rtc_sel + 1]
              ELSE LET off == b.mbc.ram_bank * 8192 + (addr - 40960)
                   IN IF off < b.ram_len THEN Cell(b.ram, RamCells, off) ELSE 255
         ELSE 255
    [] addr >= 49152 /\ addr <= 53247 -> Cell(b.wram, WramCells, <<0, addr - 49152>>)
    [] addr >= 53248 /\ addr <= 57343 ->
         Cell(b.wram, WramCells, <<b.wram_bank, addr - 53248>>)
    [] addr >= 57344 /\ addr <= 61439 -> Cell(b.wram, WramCells, <<0, addr - 57344>>)
    [] addr >= 61440 /\ addr <= 65023 ->
         Cell(b.wram, WramCells, <<b.wram_bank, addr - 61440>>)
    [] addr >= 65024 /\ addr <= 65183 -> Cell(b.oam, OamCells, addr - 65024)
    [] addr = 65280 -> b.joypad
    [] addr >= 65281 /\ addr <= 65283 -> 0
    [] addr >= 65284 /\ addr <= 65287 -> Timer_read(b.timer, addr - 65280)
    [] addr = 65295 -> b.if_reg
    [] addr >= 65296 /\ addr <= 65343 -> 255
    [] (addr >= 65344 /\ addr <= 65349) \/ (addr >= 65351 /\ addr <= 65355) ->
         Ppu_read_reg(b.ppu, addr - 65280)
    [] addr = 65350 -> 255
    [] addr = 65357 ->
         (IF b.double_speed THEN 128 ELSE 0) + (IF b.speed_switch_armed THEN 1 ELSE 0)
    [] addr = 65359 -> BitOr(254, b.vram_bank)
    [] addr = 65384 -> b.bg_cps
    [] addr = 65385 -> b.bg_cpal[BitAnd(b.bg_cps, 63)]
    [] addr = 65386 -> b.obj_cps
    [] addr = 65387 -> b.obj_cpal[BitAnd(b.obj_cps, 63)]
    [] addr = 65392 -> BitOr(248, b.wram_bank)
    [] addr >= 65408 /\ addr <= 65534 -> Cell(b.hram, HramCells, addr - 65408)
    [] addr = 65535 -> b.ie
    [] OTHER -> 255

\* arr[c] = val for a kept cell; a write to a cell that is not kept marks the bus
Store(b, field, cells, c, val) ==
  IF c \in cells THEN [b EXCEPT ![field][c] = val] ELSE [b EXCEPT !.oob = TRUE]

\* the OAM DMA arm of Bus::write (0xFF46)
Bus_dma(b, val) ==
  LET src == val * 256
  IN [b EXCEPT !.oam = [i \in OamCells |-> Bus_read(b, src + i)],
               !.oob = b.oob \/ \E i \in (0 .. 159) \ OamCells : Bus_read(b, src + i) # 0]

\* SVBK that selects the bank its low three bits name, bank 0 included
svbk_raw(val) == BitAnd(val, 7)

\* Bus::write, arm 0xFF70: the WRAM bank a written value selects
svbk(val) == IF BitAnd(val, 7) = 0 THEN 1 ELSE BitAnd(val, 7)

\* BCPS / OCPS after a data write with the carry let into bits 6 and 7
cps_next_wide(cps) ==
  IF BitAnd(cps, 128) # 0 THEN Wrap8(cps + 1) ELSE cps

\* BCPS / OCPS after a write to BCPD / OCPD: the index advances when bit 7 is set
cps_next(cps) ==
  IF BitAnd(cps, 128) # 0
  THEN BitOr(BitAnd(cps, 128), BitAnd(BitAnd(cps, 63) + 1, 63))
  ELSE cps

\* the match of Bus::write, reached when the MBC did not take the write
Bus_write_arm(b, addr, val) ==
  CASE addr >= 32768 /\ addr <= 40959 ->
         Store(b, "vram", VramCells, <<b.vram_bank, addr - 32768>>, val)
    [] addr >= 40960 /\ addr <= 49151 ->
         IF b.mbc.ram_enable
         THEN IF b.mbc.kind = "Mbc3" /\ b.mbc.rtc_sel # 255
              THEN [b EXCEPT !.mbc.rtc_reg[b.mbc.rtc_sel + 1] = val]
              ELSE LET off == b.mbc.ram_bank * 8192 + (addr - 40960)
                   IN IF off < b.ram_len THEN Store(b, "ram", RamCells, off, val) ELSE b
         ELSE b
    [] addr >= 49152 /\ addr <= 53247 ->
         Store(b, "wram", WramCells, <<0, addr - 49152>>, val)
    [] addr >= 53248 /\ addr <= 57343 ->
         Store(b, "wram", WramCells, <<b.wram_bank, addr - 53248>>, val)
    [] addr >= 65024 /\ addr <= 65183 -> Store(b, "oam", OamCells, addr - 65024, val)
    [] addr = 65280 -> [b EXCEPT !.joypad = val]
    [] addr >= 65284 /\ addr <= 65287 ->
         [b EXCEPT !.timer = Timer_write(b.timer, addr - 65280, val)]
    [] addr = 65295 -> [b EXCEPT !.if_reg = val]
    [] addr >= 65296 /\ addr <= 65343 ->
         [b EXCEPT !.apu = Apu_write_reg(b.apu, addr - 65280, val)]
    [] (addr >= 65344 /\ addr <= 65349) \/ (addr >= 65351 /\ addr <= 65355) ->
         [b EXCEPT !.ppu = Ppu_write_reg(b.ppu, addr - 65280, val)]
    [] addr = 65357 -> [b EXCEPT !.speed_switch_armed = (BitAnd(val, 1) # 0)]
    [] addr = 65359 -> [b EXCEPT !.vram_bank = BitAnd(val, 1)]
    [] addr = 65384 -> [b EXCEPT !.bg_cps = BitAnd(val, 191)]
    [] addr = 65385 ->
         LET idx == BitAnd(b.bg_cps, 63)
         IN [b EXCEPT !.bg_cpal[idx] = val, !.bg_cps = cps_next(b.bg_cps)]
    [] addr = 65386 -> [b EXCEPT !.obj_cps = BitAnd(val, 191)]
    [] addr = 65387 ->
         LET idx == BitAnd(b.obj_cps, 63)
         IN [b EXCEPT !.obj_cpal[idx] = val, !.obj_cps = cps_next(b.obj_cps)]
    [] addr = 65392 -> [b EXCEPT !.wram_bank = svbk(val)]
    [] addr = 65350 -> Bus_dma(b, val)
    [] addr >= 65408 /\ addr <= 65534 -> Store(b, "hram", HramCells, addr - 65408, val)
    [] addr = 65535 -> [b EXCEPT !.ie = val]
    [] OTHER -> b

Bus_write(b, addr, val) ==
  IF Mbc_handled(b.mbc, addr)
  THEN [b EXCEPT !.mbc = Mbc_write(b.mbc, addr, val)]
  ELSE Bus_write_arm(b, addr, val)

\* the Phase 4 copy of Bus::step_subsystems: the timer takes the unhalved
\* cycles and the APU is not stepped
step_subsystems_phase4(b, cycles) ==
  LET sub_cycles == IF b.double_speed THEN (cycles + 1) \div 2 ELSE cycles
      p  == Ppu_step(b.ppu, sub_cycles)
      i1 == IF p.vblank_irq THEN BitOr(b.if_reg, 1) ELSE b.if_reg
      i2 == IF p.stat_irq THEN BitOr(i1, 2) ELSE i1
      t  == Timer_step(b.timer, cycles)
      i3 == IF t.overflow_irq THEN BitOr(i2, 4) ELSE i2
  IN [b EXCEPT !.ppu = p, !.timer = t, !.if_reg = i3]

step_subsystems(b, cycles) ==
  LET sub_cycles == IF b.double_speed THEN (cycles + 1) \div 2 ELSE cycles
      p  == Ppu_step(b.ppu, sub_cycles)
      i1 == IF p.vblank_irq THEN BitOr(b.if_reg, 1) ELSE b.if_reg
      i2 == IF p.stat_irq THEN BitOr(i1, 2) ELSE i1
      t  == Timer_step(b.timer, sub_cycles)
      i3 == IF t.overflow_irq THEN BitOr(i2, 4) ELSE i2
  IN [b EXCEPT !.ppu = p, !.timer = t, !.if_reg = i3,
               !.apu = Apu_step_with_fs(b.apu, sub_cycles)]

\* ---------------------------------------------------------------- CPU
\* the result of executing one instruction: registers, bus, cycles returned
Out(r, b, cyc) == [regs |-> r, bus |-> b, cyc |-> cyc]

\* the operand selected by the low three bits of an opcode
get_r8(r, b, i) ==
  CASE i = 0 -> r.b [] i = 1 -> r.c [] i = 2 -> r.d [] i = 3 -> r.e
    [] i = 4 -> r.h [] i = 5 -> r.l [] i = 6 -> Bus_read(b, hl(r)) [] OTHER -> r.a

\* the write-back to the operand selected by the low three bits of an opcode
put_r8(r, b, i, v, cyc) ==
  CASE i = 0 -> Out([r EXCEPT !.b = v], b, cyc)
    [] i = 1 -> Out([r EXCEPT !.c = v], b, cyc)
    [] i = 2 -> Out([r EXCEPT !.d = v], b, cyc)
    [] i = 3 -> Out([r EXCEPT !.e = v], b, cyc)
    [] i = 4 -> Out([r EXCEPT !.h = v], b, cyc)
    [] i = 5 -> Out([r EXCEPT !.l = v], b, cyc)
    [] i = 6 -> Out(r, Bus_write(b, hl(r), v), cyc)
    [] OTHER -> Out([r EXCEPT !.a = v], b, cyc)

\* exec_cb, kind 0: the result byte and the carry of the rotate/shift bit_n
cb_shift(bit_n, val, oldc) ==
  CASE bit_n = 0 -> [r |-> Wrap8(val * 2) + val \div 128, c |-> val \div 128 # 0]
    [] bit_n = 1 -> [r |-> val \div 2 + (val % 2) * 128, c |-> val % 2 # 0]
    [] bit_n = 2 -> [r |-> Wrap8(val * 2) + (IF oldc THEN 1 ELSE 0), c |-> val \div 128 # 0]
    [] bit_n = 3 -> [r |-> val \div 2 + (IF oldc THEN 128 ELSE 0), c |-> val % 2 # 0]
    [] bit_n = 4 -> [r |-> Wrap8(val * 2), c |-> val \div 128 # 0]
    [] bit_n = 5 -> [r |-> val \div 2 + BitAnd(val, 128), c |-> val % 2 # 0]
    [] bit_n = 6 -> [r |-> Wrap8(val * 16) + val \div 16, c |-> FALSE]
    [] OTHER -> [r |-> val \div 2, c |-> val % 2 # 0]

exec_cb(r0, b) ==
  LET op    == Bus_read(b, Wrap16(r0.pc + 1))
      r     == [r0 EXCEPT !.pc = Wrap16(r0.pc + 2)]
      i     == op % 8
      kind  == op \div 64
      bit_n == (op \div 8) % 8
      cyc   == IF i = 6 THEN 16 ELSE 8
      val   == get_r8(r, b, i)
  IN CASE kind = 0 ->
            LET s == cb_shift(bit_n, val, flag_c(r))
            IN put_r8(set_znhc(r, s.r = 0, FALSE, FALSE, s.c), b, i, s.r, cyc)
       [] kind = 1 ->
            Out(set_flag_h(set_flag_n(set_flag_z(r, Bit(val, bit_n) = 0), FALSE), TRUE), b, cyc)
       [] kind = 2 -> put_r8(r, b, i, BitClear(val, 2 ^ bit_n), cyc)
       [] OTHER -> put_r8(r, b, i, BitOr(val, 2 ^ bit_n), cyc)

\* a decode that makes every opcode two bytes long
decode_two(op) == <<4, 2>>

\* decode: the (cycles, length) pair of an opcode
decode(op) ==
  CASE op = 0 -> <<4, 1>>
    [] op \in {1, 17, 33, 49} -> <<12, 3>>
    [] op \in {2, 18, 10, 26} -> <<8, 1>>
    [] op \in {3, 19, 35, 51, 11, 27, 43, 59} -> <<8, 1>>
    [] op \in {4, 5, 12, 13, 20, 21, 28, 29, 36, 37, 44, 45, 60, 61} -> <<4, 1>>
    [] op \in {6, 14, 22, 30, 38, 46, 62} -> <<8, 2>>
    [] op \in {7, 15, 23, 31} -> <<4, 1>>
    [] op = 8 -> <<20, 3>>
    [] op \in {9, 25, 41, 57} -> <<8, 1>>
    [] op = 24 -> <<12, 2>>
    [] op \in {32, 40, 48, 56} -> <<8, 2>>
    [] op \in {34, 42, 50, 58} -> <<8, 1>>
    [] op \in {52, 53} -> <<12, 1>>
    [] op = 54 -> <<12, 2>>
    [] op \in {39, 47, 55, 63} -> <<4, 1>>
    [] op \in {70, 78, 86, 94, 102, 110, 126} -> <<8, 1>>
    [] op \in {112, 113, 114, 115, 116, 117, 119} -> <<8, 1>>
    [] op = 118 -> <<4, 1>>
    [] op >= 64 /\ op <= 127 -> <<4, 1>>
    [] op >= 128 /\ op <= 191 -> <<4, 1>>
    [] op \in {198, 206, 214, 222, 230, 238, 246, 254} -> <<8, 2>>
    [] op \in {192, 200, 208, 216} -> <<8, 1>>
    [] op \in {193, 209, 225, 241} -> <<12, 1>>
    [] op \in {194, 202, 210, 218} -> <<12, 3>>
    [] op = 195 -> <<16, 3>>
    [] op \in {196, 204, 212, 220} -> <<12, 3>>
    [] op \in {197, 213, 229, 245} -> <<16, 1>>
    [] op \in {199, 207, 215, 223, 231, 239, 247, 255} -> <<16, 1>>
    [] op = 201 -> <<16, 1>>
    [] op = 203 -> <<8, 2>>
    [] op = 205 -> <<24, 3>>
    [] op = 217 -> <<16, 1>>
    [] op \in {224, 240} -> <<12, 2>>
    [] op \in {226, 242} -> <<8, 1>>
    [] op = 232 -> <<16, 2>>
    [] op = 233 -> <<4, 1>>
    [] op \in {234, 250} -> <<16, 3>>
    [] op = 248 -> <<12, 2>>
    [] op = 249 -> <<8, 1>>
    [] op \in {243, 251} -> <<4, 1>>
    [] OTHER -> <<4, 1>>

\* the helper closures of exec_op
add_a(r, val) ==
  LET a == r.a  res == Wrap8(a + val)
  IN [set_znhc(r, res = 0, FALSE, (a % 16) + (val % 16) > 15, a + val > 255)
        EXCEPT !.a = res]
adc_a(r, val) ==
  LET a == r.a  c == IF flag_c(r) THEN 1 ELSE 0  res == Wrap8(a + val + c)
  IN [set_znhc(r, res = 0, FALSE, (a % 16) + (val % 16) + c > 15, a + val + c > 255)
        EXCEPT !.a = res]
sub_a(r, val) ==
  LET a == r.a  res == Wrap8(a - val + U8)
  IN [set_znhc(r, res = 0, TRUE, (a % 16) < (val % 16), a < val) EXCEPT !.a = res]
sbc_a(r, val) ==
  LET a == r.a  c == IF flag_c(r) THEN 1 ELSE 0  res == Wrap8(a - val - c + 2 * U8)
  IN [set_znhc(r, res = 0, TRUE, (a % 16) < (val % 16) + c, a < val + c)
        EXCEPT !.a = res]
and_a(r, val) ==
  LET res == BitAnd(r.a, val)
  IN set_znhc([r EXCEPT !.a = res], res = 0, FALSE, TRUE, FALSE)
xor_a(r, val) ==
  LET res == BitXor(r.a, val)
  IN set_znhc([r EXCEPT !.a = res], res = 0, FALSE, FALSE, FALSE)
or_a(r, val) ==
  LET res == BitOr(r.a, val)
  IN set_znhc([r EXCEPT !.a = res], res = 0, FALSE, FALSE, FALSE)
cp_a(r, val) ==
  LET a == r.a
  IN set_znhc(r, a = val, TRUE, (a % 16) < (val % 16), a < val)
\* inc8 / dec8: the flags they leave (the result is val +/- 1 wrapped)
inc8(r, val) ==
  set_flag_h(set_flag_n(set_flag_z(r, Wrap8(val + 1) = 0), FALSE), val % 16 = 15)
dec8(r, val) ==
  set_flag_h(set_flag_n(set_flag_z(r, Wrap8(val + 255) = 0), TRUE), val % 16 = 0)
add_hl(r, val) ==
  LET h == hl(r)  res == Wrap16(h + val)
  IN set_hl(set_flag_c(set_flag_h(set_flag_n(r, FALSE),
                                  (h % 4096) + (val % 4096) > 4095),
                       h + val > 65535), res)

\* exec_op, arm 0x27 (DAA)
daa(r) ==
  LET a == r.a  n == flag_n(r)  h == flag_h(r)  c == flag_c(r)
      adj == IF ~n
             THEN (IF h \/ (a % 16) > 9 THEN 6 ELSE 0) + (IF c \/ a > 153 THEN 96 ELSE 0)
             ELSE (IF h THEN 6 ELSE 0) + (IF c THEN 96 ELSE 0)
      res == IF ~n THEN Wrap8(a + adj) ELSE Wrap8(a - adj + U8)
      r1  == set_flag_h(set_flag_z(r, res = 0), FALSE)
      r2  == IF BitAnd(adj, 96) # 0 THEN set_flag_c(r1, TRUE) ELSE r1
  IN [r2 EXCEPT !.a = res]

\* push_call: push PC (already past the instruction) and jump
push_call(r, b, target, cyc) ==
  LET sp1 == Wrap16(r.sp + 65535)
      sp2 == Wrap16(sp1 + 65535)
      b1  == Bus_write(b, sp1, r.pc \div 256)
      b2  == Bus_write(b1, sp2, r.pc % 256)
  IN Out([r EXCEPT !.sp = sp2, !.pc = target], b2, cyc)

\* the two pops shared by RET cc and POP r16: the 16-bit value and the new SP
pop16(r, b) ==
  LET lo == Bus_read(b, r.sp)
      hi == Bus_read(b, Wrap16(r.sp + 1))
  IN [lo |-> lo, hi |-> hi, sp |-> Wrap16(r.sp + 2)]

\* the two pushes of PUSH r16: high byte at sp-1, `lo` at sp-2
push16(r, b, hi, lo, cyc) ==
  LET sp1 == Wrap16(r.sp + 65535)
      sp2 == Wrap16(sp1 + 65535)
  IN Out([r EXCEPT !.sp = sp2], Bus_write(Bus_write(b, sp1, hi), sp2, lo), cyc)

\* `imm8_val as i8 as i32` reduced to 16 bits (two's complement)
sext16(v) == IF v >= 128 THEN 65280 + v ELSE v

\* exec_op, arms 0xE8 and 0xF8: the sum and the flags it leaves
sp_plus_e(r, v) ==
  LET e   == sext16(v)
      res == Wrap16(r.sp + e)
      x   == BitXor(BitXor(r.sp, e), res)
  IN [res |-> res,
      regs |-> set_znhc(r, FALSE, FALSE, BitAnd(x, 16) # 0, BitAnd(x, 256) # 0)]

\* exec_op, arms 0x00-0x3F
exec_op_lo(op, r, b, cyc, imm8_val, imm16_val) ==
  CASE op = 1 -> Out(set_bc(r, imm16_val), b, cyc)
    [] op = 17 -> Out(set_de(r, imm16_val), b, cyc)
    [] op = 33 -> Out(set_hl(r, imm16_val), b, cyc)
    [] op = 49 -> Out([r EXCEPT !.sp = imm16_val], b, cyc)
    [] op = 2 -> Out(r, Bus_write(b, bc(r), r.a), cyc)
    [] op = 18 -> Out(r, Bus_write(b, de(r), r.a), cyc)
    [] op = 10 -> Out([r EXCEPT !.a = Bus_read(b, bc(r))], b, cyc)
    [] op = 26 -> Out([r EXCEPT !.a = Bus_read(b, de(r))], b, cyc)
    [] op = 3 -> Out(set_bc(r, Wrap16(bc(r) + 1)), b, cyc)
    [] op = 19 -> Out(set_de(r, Wrap16(de(r) + 1)), b, cyc)
    [] op = 35 -> Out(set_hl(r, Wrap16(hl(r) + 1)), b, cyc)
    [] op = 51 -> Out([r EXCEPT !.sp = Wrap16(r.sp + 1)], b, cyc)
    [] op = 11 -> Out(set_bc(r, Wrap16(bc(r) + 65535)), b, cyc)
    [] op = 27 -> Out(set_de(r, Wrap16(de(r) + 65535)), b, cyc)
    [] op = 43 -> Out(set_hl(r, Wrap16(hl(r) + 65535)), b, cyc)
    [] op = 59 -> Out([r EXCEPT !.sp = Wrap16(r.sp + 65535)], b, cyc)
    [] op \in {4, 12, 20, 28, 36, 44, 52, 60} ->
         LET i == op \div 8  v == get_r8(r, b, i)
         IN put_r8(inc8(r, v), b, i, Wrap8(v + 1), cyc)
    [] op \in {5, 13, 21, 29, 37, 45, 53, 61} ->
         LET i == op \div 8  v == get_r8(r, b, i)
         IN put_r8(dec8(r, v), b, i, Wrap8(v + 255), cyc)
    [] op \in {6, 14, 22, 30, 38, 46, 54, 62} -> put_r8(r, b, op \div 8, imm8_val, cyc)
    [] op = 7 ->
         LET c == r.a \div 128
         IN Out([r EXCEPT !.a = Wrap8(r.a * 2) + c, !.f = IF c # 0 THEN 16 ELSE 0], b, cyc)
    [] op = 15 ->
         LET c == r.a % 2
         IN Out([r EXCEPT !.a = r.a \div 2 + c * 128, !.f = IF c # 0 THEN 16 ELSE 0], b, cyc)
    [] op = 23 ->
         LET oc == IF flag_c(r) THEN 1 ELSE 0  nc == r.a \div 128
         IN Out([r EXCEPT !.a = Wrap8(r.a * 2) + oc, !.f = IF nc # 0 THEN 16 ELSE 0], b, cyc)
    [] op = 31 ->
         LET oc == IF flag_c(r) THEN 128 ELSE 0  nc == r.a % 2
         IN Out([r EXCEPT !.a = r.a \div 2 + oc, !.f = IF nc # 0 THEN 16 ELSE 0], b, cyc)
    [] op = 8 ->
         Out(r, Bus_write(Bus_write(b, imm16_val, r.sp % 256),
                          Wrap16(imm16_val + 1), r.sp \div 256), cyc)
    [] op = 9 -> Out(add_hl(r, bc(r)), b, cyc)
    [] op = 25 -> Out(add_hl(r, de(r)), b, cyc)
    [] op = 41 -> Out(add_hl(r, hl(r)), b, cyc)
    [] op = 57 -> Out(add_hl(r, r.sp), b, cyc)
    [] op = 24 -> Out([r EXCEPT !.pc = AddSigned16(r.pc, imm8_val)], b, cyc)
    [] op \in {32, 40, 48, 56} ->
         LET taken == CASE op = 32 -> ~flag_z(r) [] op = 40 -> flag_z(r)
                        [] op = 48 -> ~flag_c(r) [] OTHER -> flag_c(r)
         IN IF taken THEN Out([r EXCEPT !.pc = AddSigned16(r.pc, imm8_val)], b, 12)
            ELSE Out(r, b, cyc)
    [] op = 34 -> Out(set_hl(r, Wrap16(hl(r) + 1)), Bus_write(b, hl(r), r.a), cyc)
    [] op = 42 -> Out(set_hl([r EXCEPT !.a = Bus_read(b, hl(r))], Wrap16(hl(r) + 1)), b, cyc)
    [] op = 50 -> Out(set_hl(r, Wrap16(hl(r) + 65535)), Bus_write(b, hl(r), r.a), cyc)
    [] op = 58 ->
         Out(set_hl([r EXCEPT !.a = Bus_read(b, hl(r))], Wrap16(hl(r) + 65535)), b, cyc)
    [] op = 39 -> Out(daa(r), b, cyc)
    [] op = 47 ->
         Out(set_flag_h(set_flag_n([r EXCEPT !.a = 255 - r.a], TRUE), TRUE), b, cyc)
    [] op = 55 -> Out(set_flag_c(set_flag_h(set_flag_n(r, FALSE), FALSE), TRUE), b, cyc)
    [] op = 63 ->
         Out(set_flag_c(set_flag_h(set_flag_n(r, FALSE), FALSE), ~flag_c(r)), b, cyc)
    [] OTHER -> Out(r, b, cyc)

\* exec_op, arms 0x80-0xBF and the ALU A, d8 arms: the closure chosen by bits 3-5
alu(k, r, val) ==
  CASE k = 0 -> add_a(r, val) [] k = 1 -> adc_a(r, val)
    [] k = 2 -> sub_a(r, val) [] k = 3 -> sbc_a(r, val)
    [] k = 4 -> and_a(r, val) [] k = 5 -> xor_a(r, val)
    [] k = 6 -> or_a(r, val)  [] OTHER -> cp_a(r, val)

\* a condition that never holds
cond_never(op, r) == FALSE

\* the condition of a conditional RET / JP / CALL (opcodes 0xC0-0xDF, bits 3-4)
cond(op, r) ==
  CASE (op \div 8) % 4 = 0 -> ~flag_z(r)
    [] (op \div 8) % 4 = 1 -> flag_z(r)
    [] (op \div 8) % 4 = 2 -> ~flag_c(r)
    [] OTHER -> flag_c(r)

\* exec_op, arms 0xC0-0xFF
exec_op_hi(op, r, b, cyc, imm8_val, imm16_val) ==
  CASE op \in {198, 206, 214, 222, 230, 238, 246, 254} ->
         Out(alu((op - 192) \div 8, r, imm8_val), b, cyc)
    [] op \in {192, 200, 208, 216} ->
         IF cond(op, r)
         THEN LET p == pop16(r, b)
              IN Out([r EXCEPT !.sp = p.sp, !.pc = p.hi * 256 + p.lo], b, 20)
         ELSE Out(r, b, cyc)
    [] op = 193 ->
         LET p == pop16(r, b) IN Out(set_bc([r EXCEPT !.sp = p.sp], p.hi * 256 + p.lo), b, cyc)
    [] op = 209 ->
         LET p == pop16(r, b) IN Out(set_de([r EXCEPT !.sp = p.sp], p.hi * 256 + p.lo), b, cyc)
    [] op = 225 ->
         LET p == pop16(r, b) IN Out(set_hl([r EXCEPT !.sp = p.sp], p.hi * 256 + p.lo), b, cyc)
    [] op = 241 ->
         LET p == pop16(r, b)
         IN Out(set_af([r EXCEPT !.sp = p.sp], p.hi * 256 + BitAnd(p.lo, 240)), b, cyc)
    [] op \in {194, 202, 210, 218} ->
         IF cond(op, r) THEN Out([r EXCEPT !.pc = imm16_val], b, 16) ELSE Out(r, b, cyc)
    [] op = 197 -> push16(r, b, r.b, r.c, cyc)
    [] op = 213 -> push16(r, b, r.d, r.e, cyc)
    [] op = 229 -> push16(r, b, r.h, r.l, cyc)
    [] op = 245 -> push16(r, b, r.a, BitAnd(r.f, 240), cyc)
    [] op \in {196, 204, 212, 220} ->
         IF cond(op, r) THEN push_call(r, b, imm16_val, 24) ELSE Out(r, b, cyc)
    [] op \in {199, 207, 215, 223, 231, 239, 247, 255} -> push_call(r, b, op - 199, cyc)
    [] op = 224 -> Out(r, Bus_write(b, 65280 + imm8_val, r.a), cyc)
    [] op = 240 -> Out([r EXCEPT !.a = Bus_read(b, 65280 + imm8_val)], b, cyc)
    [] op = 226 -> Out(r, Bus_write(b, 65280 + r.c, r.a), cyc)
    [] op = 242 -> Out([r EXCEPT !.a = Bus_read(b, 65280 + r.c)], b, cyc)
    [] op = 232 ->
         LET s == sp_plus_e(r, imm8_val) IN Out([s.regs EXCEPT !.sp = s.res], b, cyc)
    [] op = 234 -> Out(r, Bus_write(b, imm16_val, r.a), cyc)
    [] op = 250 -> Out([r EXCEPT !.a = Bus_read(b, imm16_val)], b, cyc)
    [] op = 248 -> LET s == sp_plus_e(r, imm8_val) IN Out(set_hl(s.regs, s.res), b, cyc)
    [] op = 249 -> Out([r EXCEPT !.sp = hl(r)], b, cyc)
    [] OTHER -> Out(r, b, cyc)

\* exec_op: r.pc is already past the instruction; default_cyc comes from decode
exec_op(op, r, b, default_cyc) ==
  LET imm8_val  == Bus_read(b, Wrap16(r.pc + 65535))
      imm16_val == Bus_read(b, Wrap16(r.pc + 65535)) * 256 + Bus_read(b, Wrap16(r.pc + 65534))
  IN IF op < 64 THEN exec_op_lo(op, r, b, default_cyc, imm8_val, imm16_val)
     ELSE IF op = 118 THEN Out(r, b, default_cyc)
     ELSE IF op < 128 THEN put_r8(r, b, (op - 64) \div 8, get_r8(r, b, op % 8), default_cyc)
     ELSE IF op < 192 THEN Out(alu((op - 128) \div 8, r, get_r8(r, b, op % 8)), b, default_cyc)
     ELSE exec_op_hi(op, r, b, default_cyc, imm8_val, imm16_val)

\* Clock::tick that always adds one machine cycle
tick_one(t_cycles, c) == t_cycles + 4
\* Clock::tick; the u64 counter cannot wrap within the runs considered
tick(t_cycles, c) == t_cycles + c

\* ---------------------------------------------------------------- GbCore
\* the register file a CGB boot ROM leaves: AF=0x1180 BC=0x0000 DE=0xFF56 HL=0x000D
post_boot_cgb(r) ==
  [set_hl(set_de(set_bc(set_af(r, 4480), 0), 65366), 13) EXCEPT !.sp = 65534, !.pc = 256]

\* GbCore::new: set_af(0x01B0); set_bc(0x0013); set_de(0x00D8); set_hl(0x014D);
\* sp = 0xFFFE; pc = 0x0100
post_boot(r) ==
  [set_hl(set_de(set_bc(set_af(r, 432), 19), 216), 333) EXCEPT !.sp = 65534, !.pc = 256]

GbCore_new(rom) ==
  [regs |-> post_boot(Registers_default),
   bus |-> Bus_new(rom), t_cycles |-> 0,
   halted |-> FALSE, ime |-> FALSE, ime_pending |-> FALSE]

\* GbCore::step, its tail: step_subsystems(cycles); clock.tick(cycles); Ok(cycles),
\* for the registers, bus and cycles o that the executed path left
step_done(g, o) ==
  [g EXCEPT !.regs = o.regs, !.bus = step_subsystems(o.bus, o.cyc),
            !.t_cycles = tick(g.t_cycles, o.cyc)] @@ [ret |-> o.cyc]

\* a wake-up that acknowledges the interrupts it wakes for
halted_wake_ack(g, b) ==
  [g EXCEPT !.bus = [b EXCEPT !.if_reg = BitClear(b.if_reg, BitAnd(b.ie, 31))],
            !.t_cycles = tick(g.t_cycles, 4),
            !.halted = ~(BitAnd(BitAnd(b.if_reg, b.ie), 31) # 0)] @@ [ret |-> 4]

\* GbCore::step, the halted quantum: what follows step_subsystems(4), which left b
halted_wake(g, b) ==
  [g EXCEPT !.bus = b, !.t_cycles = tick(g.t_cycles, 4),
            !.halted = ~(BitAnd(BitAnd(b.if_reg, b.ie), 31) # 0)] @@ [ret |-> 4]

\* GbCore::step, the halted quantum
step_halted(g) == halted_wake(g, step_subsystems(g.bus, 4))

\* GbCore::step, interrupt dispatch (g.ime already promoted, pending # 0)
step_irq(g, pending) ==
  LET bit == trailing_zeros(pending)
  IN step_done([g EXCEPT !.ime = FALSE],
               push_call(g.regs, [g.bus EXCEPT !.if_reg = BitClear(g.bus.if_reg, 2 ^ bit)],
                         64 + bit * 8, 20))

\* a STOP that switches speed whether or not the switch is armed
step_deferred_unarmed(g, op, delta, o) ==
  step_done([g EXCEPT !.halted = (op = 118),
                      !.ime = IF op = 243 THEN FALSE ELSE g.ime,
                      !.ime_pending = IF op = 251 THEN TRUE ELSE g.ime_pending],
            [o EXCEPT !.regs.pc = IF op = 118 THEN Wrap16(@ + U16 - delta) ELSE @,
                      !.bus.double_speed = IF op = 16 THEN ~@ ELSE @,
                      !.bus.speed_switch_armed = IF op = 16 /\ @ THEN FALSE ELSE @])

\* GbCore::step, the `match op` after exec_op returned o: the ops deferred to step()
step_deferred(g, op, delta, o) ==
  step_done([g EXCEPT !.halted = (op = 118),
                      !.ime = IF op = 243 THEN FALSE ELSE g.ime,
                      !.ime_pending = IF op = 251 THEN TRUE ELSE g.ime_pending],
            [o EXCEPT !.regs.pc = IF op = 118 THEN Wrap16(@ + U16 - delta) ELSE @,
                      !.bus.double_speed = IF op = 16 /\ o.bus.speed_switch_armed
                                           THEN ~@ ELSE @,
                      !.bus.speed_switch_armed = IF op = 16 /\ @ THEN FALSE ELSE @])

\* GbCore::step, decode and execute the opcode op with decode's pair d
step_decoded(g, op, d) ==
  step_deferred(g, op, d[2],
                exec_op(op, [g.regs EXCEPT !.pc = Wrap16(g.regs.pc + d[2])], g.bus, d[1]))

\* GbCore::step, fetch and execute
step_fetched(g, op) ==
  IF op = 203 THEN step_done(g, exec_cb(g.regs, g.bus))
  ELSE step_decoded(g, op, decode(op))

step_exec(g) == step_fetched(g, Bus_read(g.bus, g.regs.pc))

\* GbCore::step: the core it leaves, with the Ok(cycles) it returns in `ret`
\* GbCore::step on a core that is not halted, ime_pending already promoted
step_running(g, pending) ==
  IF g.ime /\ pending # 0 THEN step_irq(g, pending) ELSE step_exec(g)

GbCore_step(g) ==
  IF g.halted THEN step_halted(g)
  ELSE step_running(IF g.ime_pending THEN [g EXCEPT !.ime = TRUE, !.ime_pending = FALSE]
                    ELSE g,
                    BitAnd(BitAnd(g.bus.if_reg, g.bus.ie), 31))

\* ---------------------------------------------------------------- state
\* regs .. ime_pending are the fields of GbCore. The rest is the host's side and
\* what the properties need to remember:
\*   last  - the step() or bus write just made: its path, the bytes at the old PC,
\*           the value returned, the registers and cycle count before it; for a
\*           bus write its address and value
\*   host  - the number of step() calls made, and the locals of run_frame
\*   saved - the record save_state produced, with the core it was taken from
\*   obs   - what an observer of the PPU has counted since the last LY wraparound
VARIABLES regs, bus, clock, halted, ime, ime_pending, last, host, saved, obs

vars == <<regs, bus, clock, halted, ime, ime_pending, last, host, saved, obs>>

\* the GbCore value held by the variables
Core ==
  [regs |-> regs, bus |-> bus, t_cycles |-> clock.t_cycles,
   halted |-> halted, ime |-> ime, ime_pending |-> ime_pending]

\* the variables take the GbCore value g
SetCore(g) ==
  /\ regs' = g.regs
  /\ bus' = g.bus
  /\ clock' = [t_cycles |-> g.t_cycles]
  /\ halted' = g.halted
  /\ ime' = g.ime
  /\ ime_pending' = g.ime_pending

NoLast == [kind |-> "none", op |-> 0, lo |-> 0, hi |-> 0, ret |-> 0,
           regs |-> Registers_default, t |-> 0, addr |-> 0, val |-> 0]
NoHost == [steps |-> 0, active |-> FALSE, target |-> 0, entry |-> 0, frames |-> 0]
NoSave == [valid |-> FALSE]
NoObs  == [wraps |-> 0, vblanks |-> 0, hblanks |-> 0, done_vblanks |-> 0, done_hblanks |-> 0]

\* which path of GbCore::step a core takes
step_kind(g) ==
  IF g.halted THEN "halt"
  ELSE IF (g.ime \/ g.ime_pending) /\ BitAnd(BitAnd(g.bus.if_reg, g.bus.ie), 31) # 0
       THEN "irq"
  ELSE IF Bus_read(g.bus, g.regs.pc) = 203 THEN "cb" ELSE "op"

\* what `last` records about a step() from g that returned ret
StepRecord(g, ret) ==
  [kind |-> step_kind(g), op |-> Bus_read(g.bus, g.regs.pc),
   lo |-> Bus_read(g.bus, Wrap16(g.regs.pc + 1)),
   hi |-> Bus_read(g.bus, Wrap16(g.regs.pc + 2)),
   ret |-> ret, regs |-> g.regs, t |-> g.t_cycles, addr |-> 0, val |-> 0]

\* the variables after a step() that left g and returned g.ret; a step that
\* stores outside the kept cells is left out
Stepped_to(g) ==
  /\ ~g.bus.oob
  /\ SetCore(g)
  /\ last' = StepRecord(Core, g.ret)

\* one call of GbCore::step
DoStep == Stepped_to(GbCore_step(Core))

\* the variables hold the GbCore value g (initial-state form)
SetCoreInit(g) ==
  /\ regs = g.regs
  /\ bus = g.bus
  /\ clock = [t_cycles |-> g.t_cycles]
  /\ halted = g.halted
  /\ ime = g.ime
  /\ ime_pending = g.ime_pending

\* ---------------------------------------------------------------- cartridges
\* a 32 KiB zero-filled image with `bytes` at the entry point 0x0100, as the
\* tests' minimal_rom and the hosts' synthetic ROM builder make them
Rom(kind_byte, ram_byte, bytes) ==
  [Image(32768, kind_byte, ram_byte)
     EXCEPT !.code = [i \in 1 .. Len(bytes) |-> <<255 + i, bytes[i]>>]]

\* immediate bytes tried after an opcode
LoBytes == {0, 15, 64, 65, 112, 254, 255}
HiBytes == {0, 192, 255}

\* every encoding of opcode op with those immediates (all 256 CB opcodes)
Encodings(op) ==
  IF op = 203 THEN {<<203, c>> : c \in 0 .. 255}
  ELSE CASE decode(op)[2] = 1 -> {<<op>>}
         [] decode(op)[2] = 2 -> {<<op, lo>> : lo \in LoBytes}
         [] OTHER -> {<<op, lo, hi>> : lo \in LoBytes, hi \in HiBytes}

Probes == UNION {Encodings(op) : op \in 0 .. 255}

\* instructions run before the probed one:
\*   nothing; PUSH BC; LD A,0xE1 / LDH (0x0F),A; INC A / CCF; LD A,0x08
Prologues == {<< >>, <<197>>, <<62, 225, 224, 15>>, <<60, 63>>, <<62, 8>>}

\* whole programs: interrupt dispatch right after EI (IE = IF = 0x01, then
\* IE = IF = 0xF6), HALT with nothing enabled, HALT woken by a pending timer
\* interrupt, WRAM bank 2 then SVBK = 0x08, LD (0xE000),A into echo RAM, the
\* speed switch (KEY1 = 1, STOP) followed by a second STOP and by KEY1 = 0xFE
Fixed ==
  {<<234, 0, 224>>,
   <<62, 1, 224, 255, 224, 15, 251>>,
   <<62, 246, 224, 255, 224, 15, 251>>,
   <<118>>,
   <<62, 4, 224, 255, 224, 15, 118>>,
   <<62, 2, 224, 112, 62, 8, 224, 112>>,
   <<62, 1, 224, 77, 16, 0, 16, 0, 61, 224, 77>>,
   <<62, 254, 224, 77, 16, 0>>}

Programs == {p \o q : p \in Prologues, q \in Probes} \cup Fixed

\* step() calls made per run
MaxSteps == 6

\* ---------------------------------------------------------------- Spec
\* A fresh core on a cartridge from Programs; the host calls step().
Fresh(rom) ==
  /\ SetCoreInit(GbCore_new(rom))
  /\ last = NoLast
  /\ host = NoHost
  /\ saved = NoSave
  /\ obs = NoObs

Init == \E prog \in Programs : Fresh(Rom(0, 0, prog))

Step ==
  /\ host.steps < MaxSteps
  /\ DoStep
  /\ host' = [host EXCEPT !.steps = @ + 1]
  /\ UNCHANGED <<saved, obs>>

Next == Step

Spec == Init /\ [][Next]_vars

\* ---------------------------------------------------------------- properties
\* the last action was a call of step()
Stepped == last.kind \in {"halt", "irq", "op", "cb"}

\* C1: every step() - an instruction, an interrupt dispatch or a halted quantum -
\* returns a cycle count c >= 4 and has advanced clock.t_cycles by exactly c, so the
\* clock strictly increases.
C1_StepAdvancesClock ==
  Stepped => /\ last.ret >= 4
             /\ clock.t_cycles = last.t + last.ret
             /\ clock.t_cycles > last.t

\* C1 witness: an interrupt dispatch that returned 20 and moved the clock by 20
C1_Witness ==
  /\ last.kind = "irq"
  /\ last.ret = 20
  /\ clock.t_cycles = last.t + 20
  /\ regs.pc = 64


\* C2: after every step() from a fresh core the low nibble of F is zero, whatever
\* the instruction (POP AF, the accumulator rotates, the ALU).
C2_FlagsLowNibbleZero == Stepped => BitAnd(regs.f, 15) = 0

\* C2 witness: POP AF has just popped the 0x13 that PUSH BC stored, and F is 0x10
C2_Witness ==
  /\ last.kind = "op"
  /\ last.op = 241
  /\ Bus_read(bus, last.regs.sp) = 19
  /\ regs.f = 16
  /\ regs.a = 0

\* C3: after a guest write of v to IF (LDH (0x0F),A with A = v) a read of 0xFF0F
\* carries the low five bits of v and nothing in bits 5-7.
C3_IfWriteKeepsLowFive ==
  (last.kind = "op" /\ last.op = 224 /\ last.lo = 15)
    => /\ BitAnd(Bus_read(bus, 65295), 224) = 0
       /\ BitAnd(Bus_read(bus, 65295), BitAnd(last.regs.a, 31)) = BitAnd(last.regs.a, 31)

\* C4: after every step() from a fresh core the PPU mode is one of 0..3 and STAT
\* bits 0-1 equal it, for every guest program (LCDC and STAT writes included).
C4_StatLowBitsAreMode ==
  Stepped => /\ bus.ppu.mode \in 0 .. 3
             /\ BitAnd(bus.ppu.stat, 3) = bus.ppu.mode


\* C6: in every state reached by step() and the bus writes it makes the WRAM bank
\* is one of 1..7, and a write to 0xFF70 whose low three bits are zero (by
\* LDH (0x70),A or LD (0xFF70),A) selects bank 1.
C6_WramBankRange ==
  /\ bus.wram_bank \in 1 .. 7
  /\ (/\ last.kind = "op"
      /\ \/ last.op = 224 /\ last.lo = 112
         \/ last.op = 234 /\ last.lo = 112 /\ last.hi = 255
      /\ BitAnd(last.regs.a, 7) = 0)
       => bus.wram_bank = 1

\* C6 witness: with bank 2 selected, LDH (0x70),A with A = 0x08 has selected bank 1,
\* read back as 0xF9
C6_Witness ==
  /\ host.steps = 4
  /\ last.kind = "op"
  /\ last.op = 224
  /\ last.lo = 112
  /\ last.regs.a = 8
  /\ bus.wram_bank = 1
  /\ Bus_read(bus, 65392) = 249

\* ---------------------------------------------------------------- SpecBus
\* A fresh core on a cartridge of any kind, whose MBC registers are written
\* (the guest's stores to 0x0000-0x7FFF, Bus::write) in any order.
KindBytes == {0, 1, 5, 19, 25, 252}

\* one address in each MBC register range, and 0x2100
WriteAddrs == {0, 8192, 8448, 12288, 16384, 24576, 32767}
WriteVals  == {0, 1, 3, 5, 10, 32, 96, 127, 255}

\* a 2 MiB image of 128 banks: bank n begins with the byte n + 1 and ends with
\* the byte 255 - n
RomBanked(kind_byte) ==
  [Image(128 * 16384, kind_byte, 0)
     EXCEPT !.code = [i \in 1 .. 256 |->
                        IF i <= 128 THEN <<(i - 1) * 16384, i>>
                        ELSE <<(i - 129) * 16384 + 16383, 384 - i>>]]

InitBus == \E k \in KindBytes : Fresh(RomBanked(k))

\* the variables after bus.write(addr, val) left the bus b
Written_to(b, addr, val) ==
  /\ ~b.oob
  /\ bus' = b
  /\ last' = [NoLast EXCEPT !.kind = "write", !.addr = addr, !.val = val]
  /\ UNCHANGED <<regs, clock, halted, ime, ime_pending, host, saved, obs>>

BusWrite ==
  \E addr \in WriteAddrs, val \in WriteVals : Written_to(Bus_write(bus, addr, val), addr, val)

NextBus == BusWrite

SpecBus == InitBus /\ [][NextBus]_vars

\* C5: on an MBC1 or MBC3 cartridge, after any writes to 0x0000-0x7FFF the
\* selected ROM bank is at least 1.
C5_RomBankNeverZero ==
  bus.mbc.kind \in {"Mbc1", "Mbc3"} => bus.mbc.rom_bank >= 1

\* C5 witness: MBC1 with upper bits 3 selected, then a write of 0x20 (low five
\* bits zero) to 0x2000 has selected bank 0x61
C5_Witness ==
  /\ bus.mbc.kind = "Mbc1"
  /\ last.kind = "write"
  /\ last.addr = 8192
  /\ last.val = 32
  /\ bus.mbc.rom_bank = 97


\* ---------------------------------------------------------------- SpecFrame
\* A fresh core whose host calls run_frame(), with single step() calls between
\* frames. run_frame is its call (target computed), its loop iterations (one
\* step() each while t_cycles < target) and its return.
\*   HALT with nothing enabled (4 cycles a step); JR -2 (12);
\*   NOP / CALL a16 / JR -6 (4, 24, 12); five NOPs, then CALL a16 / JR -5
FramePrograms ==
  {<<118>>,
   <<24, 254>>,
   <<0, 205, 0, 0, 24, 250>>,
   <<0, 0, 0, 0, 0, 205, 0, 0, 24, 251>>}

\* run_frame() calls per run, and step() calls made outside run_frame
MaxFrames == 2
MaxIdleSteps == 1

InitFrame == \E prog \in FramePrograms : Fresh(Rom(0, 0, prog))

\* run_frame: let target = self.clock.t_cycles + CYCLES_PER_FRAME
frame_target_now(t_cycles) == t_cycles

frame_target(t_cycles) == t_cycles + CYCLES_PER_FRAME

FrameCall ==
  /\ ~host.active
  /\ host.frames < MaxFrames
  /\ host' = [host EXCEPT !.active = TRUE, !.entry = clock.t_cycles,
                          !.target = frame_target(clock.t_cycles)]
  /\ last' = [NoLast EXCEPT !.kind = "call"]
  /\ UNCHANGED <<regs, bus, clock, halted, ime, ime_pending, saved, obs>>

\* run_frame: while self.clock.t_cycles < target { self.step()?; }
FrameStep ==
  /\ host.active
  /\ clock.t_cycles < host.target
  /\ DoStep
  /\ UNCHANGED <<host, saved, obs>>

\* run_frame: the loop condition fails, Ok(())
FrameReturn ==
  /\ host.active
  /\ ~(clock.t_cycles < host.target)
  /\ host' = [host EXCEPT !.active = FALSE, !.frames = @ + 1]
  /\ last' = [NoLast EXCEPT !.kind = "frame"]
  /\ UNCHANGED <<regs, bus, clock, halted, ime, ime_pending, saved, obs>>

\* the host calls step() itself, outside run_frame
FrameIdle ==
  /\ ~host.active
  /\ host.steps < MaxIdleSteps
  /\ DoStep
  /\ host' = [host EXCEPT !.steps = @ + 1]
  /\ UNCHANGED <<saved, obs>>

NextFrame == FrameCall \/ FrameStep \/ FrameReturn \/ FrameIdle

\* the guard of FrameStep; step() itself is total, so this is ENABLED <<FrameStep>>_vars
FrameLooping == host.active /\ clock.t_cycles < host.target

\* A run_frame call that has started keeps running: its loop and its return are
\* one thread of control. Weak fairness of the loop iteration is written out
\* with FrameLooping in the place of ENABLED <<FrameStep>>_vars.
SpecFrame ==
  /\ InitFrame /\ [][NextFrame]_vars
  /\ WF_vars(FrameReturn)
  /\ ([]<>(~FrameLooping) \/ []<><<FrameStep>>_vars)

\* C7: run_frame() called in any reachable state - a core halted with no interrupt
\* ever pending included - terminates, and on return t_cycles has advanced by at
\* least 70224 and by less than 70224 + 24.
C7_RunFrameTerminates ==
  /\ host.active ~> ~host.active
  /\ [](last.kind = "frame" =>
          /\ clock.t_cycles - host.entry >= CYCLES_PER_FRAME
          /\ clock.t_cycles - host.entry < CYCLES_PER_FRAME + 24)

\* C7 witness: the second run_frame of a core halted with IE = 0 has returned,
\* 70224 cycles after it was called one step into the first frame's aftermath
C7_Witness ==
  /\ last.kind = "frame"
  /\ host.frames = 2
  /\ halted
  /\ bus.ie = 0
  /\ clock.t_cycles - host.entry = CYCLES_PER_FRAME
  /\ host.steps = 1

\* ---------------------------------------------------------------- SpecPpu
\* A core runs the first instructions of its cartridge - which leave the LCD on
\* and, in the second program, switch to double speed (LD A,1; LDH (0x4D),A;
\* STOP) - and from then on Bus::step_subsystems is called with every cycle count
\* a step() can pass.
PpuPrograms == {<< >>, <<62, 1, 224, 77, 16, 0>>}
StepCycles == {4, 8, 12, 16, 20, 24}

\* step() calls before the cycle counts are left open, and LY wraparounds followed
PpuBootSteps == 3
MaxWraps == 2

\* the observer: Ppu::step took the PPU from p to q
Observe(o, p, q) ==
  LET v == o.vblanks + (IF q.vblank_irq THEN 1 ELSE 0)
      h == o.hblanks + (IF p.mode = Drawing /\ q.mode = HBlank THEN 1 ELSE 0)
  IN IF p.ly = 153 /\ q.ly = 0
     THEN [wraps |-> o.wraps + 1, vblanks |-> 0, hblanks |-> 0,
           done_vblanks |-> v, done_hblanks |-> h]
     ELSE [o EXCEPT !.vblanks = v, !.hblanks = h]

InitPpu == \E prog \in PpuPrograms : Fresh(Rom(0, 0, prog))

PpuBoot ==
  /\ host.steps < PpuBootSteps
  /\ DoStep
  /\ host' = [host EXCEPT !.steps = @ + 1]
  /\ obs' = Observe(obs, bus.ppu, bus'.ppu)
  /\ UNCHANGED saved

PpuStep ==
  /\ host.steps >= PpuBootSteps
  /\ obs.wraps < MaxWraps
  /\ \E c \in StepCycles :
       /\ bus' = step_subsystems(bus, c)
       /\ last' = [NoLast EXCEPT !.kind = "ppu", !.val = c]
  /\ obs' = Observe(obs, bus.ppu, bus'.ppu)
  /\ UNCHANGED <<regs, clock, halted, ime, ime_pending, host, saved>>

NextPpu == PpuBoot \/ PpuStep

SpecPpu == InitPpu /\ [][NextPpu]_vars

\* C8: with the LCD continuously enabled, between two consecutive LY wraparounds
\* (153 to 0) the PPU raises the VBlank pulse exactly once and makes exactly 144
\* Drawing -> HBlank transitions, whatever cycle counts the steps pass.
C8_OneVblankPerFrame ==
  /\ BitAnd(bus.ppu.lcdc, 128) # 0
  /\ obs.vblanks <= 1
  /\ obs.hblanks <= 144
  /\ obs.wraps >= 2 => obs.done_vblanks = 1 /\ obs.done_hblanks = 144

\* C8 witness: a second wraparound has just happened in a step of 24 cycles at
\* double speed, closing a frame of one VBlank pulse and 144 HBlank entries
C8_Witness ==
  /\ obs.wraps = 2
  /\ obs.done_vblanks = 1
  /\ obs.done_hblanks = 144
  /\ obs.vblanks = 0
  /\ obs.hblanks = 0
  /\ last.kind = "ppu"
  /\ last.val = 24
  /\ bus.double_speed
  /\ bus.ppu.ly = 0

\* ---------------------------------------------------------------- save states
\* Text is a sequence of one-character strings.
HexDigits ==
  <<"0", "1", "2", "3", "4", "5", "6", "7", "8", "9", "a", "b", "c", "d", "e", "f">>

is_ascii_digit(ch) == \E i \in 1 .. 10 : HexDigits[i] = ch
digit_value(ch) == (CHOOSE i \in 1 .. 16 : HexDigits[i] = ch) - 1

\* format!("{}", n) of an unsigned integer
RECURSIVE fmt_dec(_)
fmt_dec(n) == IF n < 10 THEN <<HexDigits[n + 1]>>
              ELSE fmt_dec(n \div 10) \o <<HexDigits[(n % 10) + 1]>>

\* format!("{}", v) of a bool
fmt_bool(v) == IF v THEN <<"t", "r", "u", "e">> ELSE <<"f", "a", "l", "s", "e">>

\* format!("{:02x}", b)
fmt_hex(b) == <<HexDigits[(b \div 16) + 1], HexDigits[(b % 16) + 1]>>

\* load_state's parse_u64 on the text `rest` that follows "key": the digits up to
\* the first character that is not one, parsed; None (-1) when the text ends
\* first or no digit comes before it. `acc` is the value of the `n` digits read.
RECURSIVE parse_run(_, _, _)
parse_run(rest, acc, n) ==
  IF rest = << >> THEN -1
  ELSE IF is_ascii_digit(Head(rest))
       THEN parse_run(Tail(rest), acc * 10 + digit_value(Head(rest)), n + 1)
  ELSE IF n = 0 THEN -1 ELSE acc

parse_u64(rest) == parse_run(rest, 0, 0)

\* load_state's parse_bool: rest.starts_with("true")
parse_bool(rest) == Len(rest) >= 4 /\ SubSeq(rest, 1, 4) = <<"t", "r", "u", "e">>

\* load_state's parse_hex on a dump kept by byte index: the bytes, or None (no
\* bytes) when a pair of characters is not two hex digits
parse_hex(dump) ==
  IF \A i \in DOMAIN dump : \A k \in 1 .. 2 : \E j \in 1 .. 16 : HexDigits[j] = dump[i][k]
  THEN [i \in DOMAIN dump |-> digit_value(dump[i][1]) * 16 + digit_value(dump[i][2])]
  ELSE << >>

\* a number as it stands in the JSON text: formatted, then the separator
field_dec(n) == fmt_dec(n) \o <<",">>

\* GbCore::save_state: the JSON document, by key; a hex dump is kept by byte
\* index, for the bytes of the kept cells
save_state(g) ==
  [version |-> "mrom.sav.v1",
   t_cycles |-> field_dec(g.t_cycles),
   cpu |-> [pc |-> field_dec(g.regs.pc), sp |-> field_dec(g.regs.sp),
            a |-> field_dec(g.regs.a), f |-> field_dec(g.regs.f),
            b |-> field_dec(g.regs.b), c |-> field_dec(g.regs.c),
            d |-> field_dec(g.regs.d), e |-> field_dec(g.regs.e),
            h |-> field_dec(g.regs.h), l |-> field_dec(g.regs.l),
            halted |-> fmt_bool(g.halted) \o <<",">>,
            ime |-> fmt_bool(g.ime) \o <<"}">>],
   rom_bank |-> field_dec(g.bus.mbc.rom_bank),
   ram_bank |-> field_dec(g.bus.mbc.ram_bank),
   vram_bank |-> field_dec(g.bus.vram_bank),
   double_speed |-> fmt_bool(g.bus.double_speed) \o <<",">>,
   wram |-> [i \in {c[1] * 4096 + c[2] : c \in WramCells} |->
               fmt_hex(g.bus.wram[<<i \div 4096, i % 4096>>])],
   hram |-> [i \in HramCells |-> fmt_hex(g.bus.hram[i])],
   oam |-> [i \in OamCells |-> fmt_hex(g.bus.oam[i])],
   vram0 |-> [i \in {c[2] : c \in {v \in VramCells : v[1] = 0}} |->
                fmt_hex(g.bus.vram[<<0, i>>])],
   vram1 |-> [i \in {c[2] : c \in {v \in VramCells : v[1] = 1}} |->
                fmt_hex(g.bus.vram[<<1, i>>])]]

\* the value parse_u64 found, cast to `width`; `old` when it found none:
\* parse_u64(..).unwrap_or(0) as u8, if let Some(v) = parse_u64(..) { x = v as u16 }
parsed(rest, old, width) ==
  IF parse_u64(rest) = -1 THEN old ELSE parse_u64(rest) % width

\* GbCore::load_state of the document s; t_cycles is parsed as the u64 it is
load_state(g, s) ==
  [g EXCEPT
     !.regs = [a |-> parsed(s.cpu.a, 0, U8), f |-> parsed(s.cpu.f, 0, U8),
               b |-> parsed(s.cpu.b, 0, U8), c |-> parsed(s.cpu.c, 0, U8),
               d |-> parsed(s.cpu.d, 0, U8), e |-> parsed(s.cpu.e, 0, U8),
               h |-> parsed(s.cpu.h, 0, U8), l |-> parsed(s.cpu.l, 0, U8),
               sp |-> parsed(s.cpu.sp, 0, U16), pc |-> parsed(s.cpu.pc, 0, U16)],
     !.halted = parse_bool(s.cpu.halted),
     !.ime = parse_bool(s.cpu.ime),
     !.t_cycles = IF parse_u64(s.t_cycles) = -1 THEN @ ELSE parse_u64(s.t_cycles),
     !.bus.mbc.rom_bank = parsed(s.rom_bank, @, U16),
     !.bus.mbc.ram_bank = parsed(s.ram_bank, @, U8),
     !.bus.vram_bank = parsed(s.vram_bank, @, U8),
     !.bus.double_speed = parse_bool(s.double_speed),
     !.bus.wram = [c \in WramCells |->
                     IF c[1] * 4096 + c[2] \in DOMAIN parse_hex(s.wram) /\ c[1] < 8
                     THEN parse_hex(s.wram)[c[1] * 4096 + c[2]] ELSE @[c]],
     !.bus.hram = [i \in HramCells |->
                     IF i \in DOMAIN parse_hex(s.hram) THEN parse_hex(s.hram)[i] ELSE @[i]],
     !.bus.oam = [i \in OamCells |->
                    IF i \in DOMAIN parse_hex(s.oam) THEN parse_hex(s.oam)[i] ELSE @[i]],
     !.bus.vram = [c \in VramCells |->
                     IF c[1] = 0
                     THEN IF c[2] \in DOMAIN parse_hex(s.vram0)
                          THEN parse_hex(s.vram0)[c[2]] ELSE @[c]
                     ELSE IF c[2] \in DOMAIN parse_hex(s.vram1)
                          THEN parse_hex(s.vram1)[c[2]] ELSE @[c]]]

\* ---------------------------------------------------------------- SpecSave
\* A fresh core steps through its cartridge; the host takes one save_state() at
\* any point and may load_state() it back at any later point.
SavePrograms ==
  {<< >>, <<62, 1, 224, 255>>, <<251>>, <<118>>, <<62, 2, 224, 112>>, <<62, 5, 224, 128>>}

\* step() calls per run
MaxSaveSteps == 3

InitSave == \E prog \in SavePrograms : Fresh(Rom(0, 0, prog))

\* step(); with vram_bank above 1 the call panics on the index into the two
\* VRAM banks (Bus::step_subsystems) and returns nothing
SaveStep ==
  /\ host.steps < MaxSaveSteps
  /\ bus.vram_bank <= 1
  /\ DoStep
  /\ host' = [host EXCEPT !.steps = @ + 1]
  /\ UNCHANGED <<saved, obs>>

\* b = save_state(); `core` remembers the state S it was taken in
SaveState ==
  /\ ~saved.valid
  /\ saved' = [valid |-> TRUE, bytes |-> save_state(Core), core |-> Core]
  /\ last' = [NoLast EXCEPT !.kind = "save"]
  /\ UNCHANGED <<regs, bus, clock, halted, ime, ime_pending, host, obs>>

\* load_state(b)
LoadState ==
  /\ saved.valid
  /\ last.kind # "load"
  /\ SetCore(load_state(Core, saved.bytes))
  /\ last' = [NoLast EXCEPT !.kind = "load"]
  /\ UNCHANGED <<host, saved, obs>>

\* a text in which no key of the record is found: every lookup yields None
NoDoc ==
  [version |-> "", t_cycles |-> << >>,
   cpu |-> [k \in {"pc", "sp", "a", "f", "b", "c", "d", "e", "h", "l", "halted", "ime"}
              |-> << >>],
   rom_bank |-> << >>, ram_bank |-> << >>, vram_bank |-> << >>, double_speed |-> << >>,
   wram |-> << >>, hram |-> << >>, oam |-> << >>, vram0 |-> << >>, vram1 |-> << >>]

\* load_state(data) of bytes that no save_state() produced: bytes that are not
\* UTF-8, a text without any field, and a record whose numbers are malformed
\* ("pc":x, and "t_cycles":12 at the end of the text).  from_utf8 is the only
\* `?` of load_state; last.ret is 1 for Err(InvalidRom), 0 for Ok(()).
LoadBad ==
  /\ last.kind \notin {"load", "load_bad"}
  /\ \E data \in {[utf8 |-> FALSE, doc |-> NoDoc],
                   [utf8 |-> TRUE, doc |-> NoDoc],
                   [utf8 |-> TRUE,
                    doc |-> [NoDoc EXCEPT !.version = "mrom.sav.v1",
                                          !.cpu.pc = <<"x", ",">>,
                                          !.t_cycles = <<"1", "2">>]]} :
       /\ SetCore(IF data.utf8 THEN load_state(Core, data.doc) ELSE Core)
       /\ last' = [NoLast EXCEPT !.kind = "load_bad",
                                  !.ret = IF data.utf8 THEN 0 ELSE 1,
                                  !.val = IF data.doc.version = "" THEN 0 ELSE 1]
  /\ UNCHANGED <<host, saved, obs>>

\* load_state(data) of a well-formed record no save_state() produced as it is:
\* the saved one with "vram_bank":2
LoadEdited ==
  /\ saved.valid
  /\ last.kind \notin {"load", "load_bad", "load_edited"}
  /\ SetCore(load_state(Core, [saved.bytes EXCEPT !.vram_bank = field_dec(2)]))
  /\ last' = [NoLast EXCEPT !.kind = "load_edited"]
  /\ UNCHANGED <<host, saved, obs>>

NextSave == SaveStep \/ SaveState \/ LoadState \/ LoadBad \/ LoadEdited

SpecSave == InitSave /\ [][NextSave]_vars

\* C9: load_state(save_state()) restores the state: after b = save_state() in a
\* state S, any number of step() calls and load_state(b), the core equals S in
\* its registers, halted/IME/IME-pending, IE/IF, MBC selectors, WRAM bank, PPU
\* and timer state and memory.
C9_LoadRestoresState == last.kind = "load" => Core = saved.core

\* C10: a freshly constructed core has AF=0x01B0, BC=0x0013, DE=0x00D8, HL=0x014D,
\* SP=0xFFFE, PC=0x0100, and a step() that executes NOP (0x00) returns 4 cycles
\* and advances PC by exactly 1, leaving every other CPU register unchanged.
C10_FreshRegistersAndNop ==
  /\ host.steps = 0 =>
        /\ af(regs) = 432 /\ bc(regs) = 19 /\ de(regs) = 216 /\ hl(regs) = 333
        /\ regs.sp = 65534 /\ regs.pc = 256
  /\ (last.kind = "op" /\ last.op = 0) =>
        /\ last.ret = 4
        /\ regs = [last.regs EXCEPT !.pc = Wrap16(@ + 1)]

\* C10 witness: the first step() of a fresh core has executed the NOP at 0x0100
C10_Witness ==
  /\ host.steps = 1
  /\ last.kind = "op"
  /\ last.op = 0
  /\ last.regs.pc = 256
  /\ last.ret = 4
  /\ regs.pc = 257
  /\ af(regs) = 432

\* ---------------------------------------------------------------- SpecSlide
\* A fresh core on a ROM of 0x00 bytes; the host calls step() SlideSteps times.
SlideSteps == 1000

SlideStep ==
  /\ host.steps < SlideSteps
  /\ DoStep
  /\ host' = [host EXCEPT !.steps = @ + 1]
  /\ UNCHANGED <<saved, obs>>

SpecSlide == Fresh(Rom(0, 0, << >>)) /\ [][SlideStep]_vars

\* C11: on a ROM consisting entirely of 0x00 bytes, after 1000 step() calls on a
\* freshly constructed core PC = 0x03E8 and t_cycles = 4000.
C11_NopSlide == host.steps = 1000 => regs.pc = 1000 /\ clock.t_cycles = 4000

\* C12: step() never returns an error, whatever the guest state: every opcode value
\* is accepted, and each undefined opcode (0xD3, 0xDB, 0xDD, 0xE3, 0xE4, 0xEB,
\* 0xEC, 0xED, 0xF4, 0xFC, 0xFD) behaves as NOP: it returns 4 T-cycles, advances
\* PC by 1 and changes no other CPU or memory state (the PPU, the timer and the
\* interrupt flags they raise move on with the 4 cycles).
C12_IllegalOpcodesAreNop ==
  [][/\ GbCore_step(Core).ret \in 4 .. 24
     /\ (/\ step_kind(Core) = "op"
         /\ Bus_read(bus, regs.pc) \in {211, 219, 221, 227, 228, 235, 236, 237, 244, 252, 253})
        => /\ last'.ret = 4
           /\ regs' = [regs EXCEPT !.pc = Wrap16(@ + 1)]
           /\ ~halted'
           /\ ime' = (ime \/ ime_pending)
           /\ clock'.t_cycles = clock.t_cycles + 4
           /\ [bus' EXCEPT !.ppu = bus.ppu, !.timer = bus.timer, !.apu = bus.apu,
                           !.if_reg = bus.if_reg] = bus
    ]_vars

\* C12 witness: 0xDD has just run as the third instruction, after LD A,0xE1 and
\* LDH (0x0F),A, and only PC moved
C12_Witness ==
  /\ last.kind = "op"
  /\ last.op = 221
  /\ last.ret = 4
  /\ host.steps = 3
  /\ regs = [last.regs EXCEPT !.pc = 261]
  /\ bus.if_reg = 225

\* C13: HALT leaves PC past the HALT opcode: when the CPU leaves the halted state
\* because an enabled interrupt is pending, execution continues at p + 1, the
\* address after the HALT at p (the next fetch with IME clear, the return address
\* the dispatch pushes with IME set), so PC is just past a HALT opcode.
C13_HaltResumesPastOpcode ==
  (last.kind = "halt" /\ ~halted) => Bus_read(bus, Wrap16(regs.pc - 1)) = 118

\* ---------------------------------------------------------------- SpecTimer
\* The guest has written TMA, TIMA and TAC (timer enabled, each of the four
\* periods); from then on Bus::step_subsystems is called with every cycle count a
\* step() can pass. obs remembers the TIMA written and the T-cycles passed since.
MaxTimerCycles == 2100

InitTimer ==
  \E tac \in 4 .. 7, tma \in {0, 254}, tima \in {0, 254, 255} :
    /\ SetCoreInit([GbCore_new(Rom(0, 0, << >>)) EXCEPT
         !.bus = Bus_write(Bus_write(Bus_write(@, 65286, tma), 65285, tima), 65287, tac)])
    /\ last = NoLast
    /\ host = NoHost
    /\ saved = NoSave
    /\ obs = [cycles |-> 0, tima |-> tima]

TimerStep ==
  /\ \E c \in StepCycles :
       /\ obs.cycles + c <= MaxTimerCycles
       /\ bus' = step_subsystems(bus, c)
       /\ obs' = [obs EXCEPT !.cycles = @ + c]
  /\ last' = [NoLast EXCEPT !.kind = "timer"]
  /\ UNCHANGED <<regs, clock, halted, ime, ime_pending, host, saved>>

\* the T-cycles after the set-up within which the guest writes DIV
DivWriteWindow == 40

\* a guest write to DIV (0xFF04)
TimerDivWrite ==
  /\ obs.cycles <= DivWriteWindow
  /\ \E v \in {0, 255} :
       /\ bus' = Bus_write(bus, 65284, v)
       /\ last' = [NoLast EXCEPT !.kind = "write", !.addr = 65284, !.val = v]
  /\ UNCHANGED <<regs, clock, halted, ime, ime_pending, host, saved, obs>>

SpecTimer == InitTimer /\ [][TimerStep \/ TimerDivWrite]_vars

\* TIMA and the number of overflows after n increments from v with reload tma
RECURSIVE tima_after(_, _, _, _)
tima_after(v, tma, n, overflows) ==
  IF n = 0 THEN <<v, overflows>>
  ELSE IF v = 255 THEN tima_after(tma, tma, n - 1, overflows + 1)
  ELSE tima_after(v + 1, tma, n - 1, overflows)

\* C14: with TAC bit 2 set and the period P selected by TAC bits 0-1 (1024, 16,
\* 64, 256), TIMA increments once per P accumulated T-cycles; an increment past
\* 0xFF reloads TMA and sets IF bit 2 by the end of the same step. With TAC=0x05,
\* TMA=0xFE, TIMA=0xFE, after exactly 32 T-cycles TIMA = 0xFE after one overflow
\* and IF bit 2 is set.
C14_TimerCountsPeriods ==
  LET P == <<1024, 16, 64, 256>>[(bus.timer.tac % 4) + 1]
      expect == tima_after(obs.tima, bus.timer.tma, obs.cycles \div P, 0)
  IN /\ bus.timer.tac \in 4 .. 7
     /\ bus.timer.tima = expect[1]
     /\ (Bit(bus.if_reg, 2) = 1) = (expect[2] > 0)
     /\ (bus.timer.tac = 5 /\ bus.timer.tma = 254 /\ obs.tima = 254 /\ obs.cycles = 32)
          => bus.timer.tima = 254 /\ expect[2] = 1 /\ Bit(bus.if_reg, 2) = 1

\* C14 witness: TAC=0x05, TMA=0xFE, TIMA=0xFE and 32 T-cycles later
C14_Witness ==
  /\ last.kind = "timer"
  /\ bus.timer.tac = 5
  /\ bus.timer.tma = 254
  /\ obs.tima = 254
  /\ obs.cycles = 32
  /\ bus.timer.tima = 254
  /\ bus.timer.overflow_irq
  /\ Bit(bus.if_reg, 2) = 1

\* C15: on MBC1 a write of v to 0x2000-0x3FFF sets the low five bits of rom_bank
\* to v & 0x1F (0 remapped to 1) and leaves bits 5-6 as they were, a write with low
\* nibble 0x0A to 0x0000-0x1FFF sets ram_enable, and a read of 0x4000 + k returns
\* the ROM byte at offset rom_bank * 0x4000 + k (the first and last byte of the
\* bank, whose values the image fixes).
C15_Mbc1BankSwitching ==
  [][bus.mbc.kind = "Mbc1" =>
       /\ (last'.addr >= 8192 /\ last'.addr <= 16383) =>
            /\ bus'.mbc.rom_bank % 32 = (IF last'.val % 32 = 0 THEN 1 ELSE last'.val % 32)
            /\ bus'.mbc.rom_bank \div 32 = bus.mbc.rom_bank \div 32
       /\ (last'.addr <= 8191 /\ last'.val % 16 = 10) => bus'.mbc.ram_enable
       /\ bus'.mbc.rom_bank < 128
       /\ Bus_read(bus', 16384) = bus'.mbc.rom_bank + 1
       /\ Bus_read(bus', 32767) = 255 - bus'.mbc.rom_bank
    ]_vars

\* C15 witness: 0x0A was written to 0x0000 and 0x05 has just been written to
\* 0x2100: RAM enabled, bank 5, and 0x4000 reads the first byte of bank 5
C15_Witness ==
  /\ bus.mbc.kind = "Mbc1"
  /\ last.kind = "write"
  /\ last.addr = 8448
  /\ last.val = 5
  /\ bus.mbc.ram_enable
  /\ bus.mbc.rom_bank = 5
  /\ bus.mbc.upper_bits = 0
  /\ Bus_read(bus, 16384) = 6

\* ---------------------------------------------------------------------------
\* CGB background palette port: BCPS (0xFF68) selects, BCPD (0xFF69) stores
\* ---------------------------------------------------------------------------

\* data writes followed, and index selections among them
MaxPalWrites == 70
MaxPalSelects == 2

\* BCPS values written: index 62 with and without auto-increment, and
\* values with the reserved bit 6 set
PalSelects == {62, 64, 190, 255}

\* the bytes written to BCPD, in turn
PalBytes == <<17, 34, 51, 68>>

\* obs.base is the value a write to BCPS asked to store, bit 6 dropped, obs.n the data writes since,
\* obs.selects the number of writes to BCPS
PalWrite ==
  \/ \E v \in PalSelects :
       /\ obs.selects < MaxPalSelects
       /\ bus' = Bus_write(bus, 65384, v)
       /\ last' = [NoLast EXCEPT !.kind = "write", !.addr = 65384, !.val = v]
       /\ obs' = [base |-> BitAnd(v, 191), n |-> 0, total |-> obs.total,
                  selects |-> obs.selects + 1]
       /\ UNCHANGED <<regs, clock, halted, ime, ime_pending, host, saved>>
  \/ /\ obs.total < MaxPalWrites
     /\ bus' = Bus_write(bus, 65385, PalBytes[(obs.total % 4) + 1])
     /\ last' = [NoLast EXCEPT !.kind = "write", !.addr = 65385,
                                !.val = PalBytes[(obs.total % 4) + 1]]
     /\ obs' = [obs EXCEPT !.n = @ + 1, !.total = @ + 1]
     /\ UNCHANGED <<regs, clock, halted, ime, ime_pending, host, saved>>

InitPal ==
  /\ SetCoreInit(GbCore_new(Rom(0, 0, << >>)))
  /\ last = NoLast /\ host = NoHost /\ saved = NoSave
  /\ obs = [base |-> 0, n |-> 0, total |-> 0, selects |-> 0]

SpecPal == InitPal /\ [][PalWrite]_vars

\* C16: with BCPS bit 7 set, a write to BCPD stores the byte at the index current
\* before the write and advances the index by one modulo 64, so that N writes after
\* a selection advance it by N mod 64; bit 7 is kept and bit 6 stays clear.  With
\* bit 7 clear BCPS is left as it was.
C16_PaletteAutoIncrement ==
  [][last'.addr = 65385 =>
       /\ bus'.bg_cpal = [bus.bg_cpal EXCEPT ![bus.bg_cps % 64] = last'.val]
       /\ Bus_read(bus', 65384) = bus'.bg_cps
       /\ (bus'.bg_cps \div 64) % 2 = 0
       /\ bus'.bg_cps \div 128 = bus.bg_cps \div 128
       /\ IF obs'.base >= 128
          THEN /\ bus'.bg_cps % 64 = ((bus.bg_cps % 64) + 1) % 64
               /\ bus'.bg_cps % 64 = ((obs'.base % 64) + (obs'.n % 64)) % 64
          ELSE bus'.bg_cps = bus.bg_cps /\ bus'.bg_cps = obs'.base
    ]_vars

\* 66 bytes written after selecting index 62 with auto-increment: the index is 0
\* again, and cell 62 holds the 65th byte
C16_Witness ==
  /\ last.addr = 65385
  /\ obs.base = 190 /\ obs.n = 66 /\ obs.total = 66
  /\ bus.bg_cps = 128
  /\ bus.bg_cpal[62] = 17 /\ bus.bg_cpal[63] = 34 /\ bus.bg_cpal[0] = 51

\* C17: load_state reports bad input as an error: bytes that are not valid UTF-8,
\* or a text that cannot be parsed as a save record (fields missing or malformed),
\* make it return an InvalidRom error rather than Ok.
C17_BadInputIsError == last.kind = "load_bad" => last.ret = 1

\* C18: a step() that begins not halted with IME set (after the promotion of
\* ime_pending) and IE & IF & 0x1F # 0 executes no instruction: it clears IME,
\* clears in IF exactly the lowest set bit b of IE & IF & 0x1F, pushes PC (high byte
\* at SP-1, low byte at SP-2, SP decreased by 2), sets PC = 0x40 + 8*b and returns
\* 20 T-cycles.
C18_InterruptDispatch ==
  [][LET pending == BitAnd(BitAnd(bus.ie, bus.if_reg), 31)
         b == CHOOSE k \in 0 .. 4 : pending % (2 ^ (k + 1)) = 2 ^ k
     IN (~halted /\ (ime \/ ime_pending) /\ pending # 0) =>
          /\ last'.kind = "irq" /\ last'.ret = 20
          /\ clock'.t_cycles = clock.t_cycles + 20
          /\ ~ime' /\ ~ime_pending' /\ ~halted'
          /\ bus'.if_reg = bus.if_reg - 2 ^ b
          /\ regs' = [regs EXCEPT !.sp = Wrap16(regs.sp + 65534), !.pc = 64 + 8 * b]
          /\ Bus_read(bus', Wrap16(regs.sp + 65535)) = regs.pc \div 256
          /\ Bus_read(bus', Wrap16(regs.sp + 65534)) = regs.pc % 256
          /\ [bus' EXCEPT !.hram = bus.hram, !.if_reg = bus.if_reg,
                          !.ppu = bus.ppu, !.timer = bus.timer,
                          !.apu = bus.apu] = bus
    ]_vars

\* the timer-less dispatch of bit 1 out of IE = IF = 0xF6: IF is left 0xF4, the
\* return address 0x0107 is on the stack and PC is 0x48
C18_Witness ==
  /\ last.kind = "irq" /\ last.ret = 20
  /\ bus.ie = 246 /\ bus.if_reg = 244
  /\ ~ime
  /\ regs.pc = 72 /\ regs.sp = 65532
  /\ Bus_read(bus, 65533) = 1 /\ Bus_read(bus, 65532) = 7

\* C19: EI takes effect with a one-instruction delay: after EI (0xFB) executed
\* with IME clear, the instruction that follows EI is executed before any interrupt
\* is dispatched, even if an enabled interrupt is already pending.
C19_EiDelaysOneInstruction ==
  [][(last.kind = "op" /\ last.op = 251 /\ ~ime) =>
       last'.kind \in {"op", "cb"} /\ last'.op = Bus_read(bus, regs.pc)
    ]_vars

\* C20: the unconditional control-flow opcodes override the default PC advance:
\* after JP a16 (0xC3) PC is the 16-bit immediate; after JP HL (0xE9) PC is HL;
\* after CALL a16 (0xCD) the address of the following instruction has been pushed
\* (SP decreased by 2) and PC is the immediate; after RET (0xC9) PC is the 16-bit
\* value popped from the stack (SP increased by 2).
C20_ControlFlowOverridesPc ==
  last.kind = "op" =>
    /\ last.op = 195 => regs.pc = last.hi * 256 + last.lo
    /\ last.op = 233 => regs.pc = hl(last.regs)
    /\ last.op = 205 =>
         /\ regs.pc = last.hi * 256 + last.lo
         /\ regs.sp = Wrap16(last.regs.sp + 65534)
         /\ Bus_read(bus, Wrap16(regs.sp + 1)) * 256 + Bus_read(bus, regs.sp)
              = Wrap16(last.regs.pc + 3)
    /\ last.op = 201 =>
         /\ regs.pc = Bus_read(bus, Wrap16(last.regs.sp + 1)) * 256
                        + Bus_read(bus, last.regs.sp)
         /\ regs.sp = Wrap16(last.regs.sp + 2)

\* C21: RETI (0xD9) pops PC from the stack (SP increased by 2) and sets IME at
\* once, so that an enabled pending interrupt is dispatched by the next step().
C21_RetiPopsAndEnables ==
  (last.kind = "op" /\ last.op = 217) =>
    /\ ime
    /\ regs.pc = Bus_read(bus, Wrap16(last.regs.sp + 1)) * 256 + Bus_read(bus, last.regs.sp)
    /\ regs.sp = Wrap16(last.regs.sp + 2)

\* C22: step() returns the actual cycle cost of conditional control flow: JR cc 12
\* taken / 8 not, JP cc 16 / 12, CALL cc 24 / 12, RET cc 20 / 8; the same count is
\* fanned out to the subsystems (the divider counts it) and added to t_cycles.
\* When not taken, PC advances by the instruction length and SP is unchanged.
C22_ConditionalCycles ==
  [][LET op    == Bus_read(bus, regs.pc)
         z     == (regs.f \div 128) % 2 = 1
         c     == (regs.f \div 16) % 2 = 1
         taken == CASE (op \div 8) % 4 = 0 -> ~z
                    [] (op \div 8) % 4 = 1 -> z
                    [] (op \div 8) % 4 = 2 -> ~c
                    [] OTHER -> c
         cost  == CASE op \in {32, 40, 48, 56}     -> <<12, 8, 2>>
                    [] op \in {194, 202, 210, 218} -> <<16, 12, 3>>
                    [] op \in {196, 204, 212, 220} -> <<24, 12, 3>>
                    [] OTHER                       -> <<20, 8, 1>>
     IN (/\ step_kind(Core) = "op"
         /\ op \in {32, 40, 48, 56, 194, 202, 210, 218, 196, 204, 212, 220,
                    192, 200, 208, 216}) =>
          /\ last'.ret = (IF taken THEN cost[1] ELSE cost[2])
          /\ clock'.t_cycles = clock.t_cycles + last'.ret
          /\ bus'.timer.div_counter = Wrap16(bus.timer.div_counter + last'.ret)
          /\ ~taken => regs' = [regs EXCEPT !.pc = Wrap16(@ + cost[3])]
    ]_vars

\* CALL Z,0xC000 taken on a fresh core (Z set): 24 cycles, on the clock and the
\* divider, the return address pushed
C22_Witness ==
  /\ last.kind = "op" /\ last.op = 204 /\ last.lo = 0 /\ last.hi = 192
  /\ last.regs.pc = 256 /\ last.t = 0
  /\ last.ret = 24 /\ clock.t_cycles = 24 /\ bus.timer.div_counter = 24
  /\ regs.pc = 49152 /\ regs.sp = 65532

\* C23: for every CB opcode xx, step() returns 8 when the operand is a register,
\* 16 when the operand is (HL) for rotate/shift/RES/SET, and 12 for BIT n,(HL);
\* PC advances by 2 in all cases.
C23_CbCycles ==
  last.kind = "cb" =>
    /\ last.ret = (IF last.lo % 8 # 6 THEN 8
                   ELSE IF last.lo \div 64 = 1 THEN 12 ELSE 16)
    /\ regs.pc = Wrap16(last.regs.pc + 2)

\* C24: any guest write to DIV (0xFF04), whatever the value, zeroes DIV, the
\* 16-bit internal divider counter and the TIMA prescaler counter, so that the
\* next TIMA increment comes a full TAC-selected period after the write.
C24_DivWriteResetsPrescaler ==
  [][(last'.kind = "write" /\ last'.addr = 65284) =>
       /\ bus'.timer.div = 0
       /\ bus'.timer.div_counter = 0
       /\ bus'.timer.tima_counter = 0
    ]_vars

\* C25: echo RAM is symmetric for reads and writes: a guest write of v to
\* 0xE000+k (k in 0..0x1DFF) is then read back at 0xC000+k and at 0xE000+k under
\* the same WRAM bank selection, and a write to 0xC000+k is read back at 0xE000+k.
C25_EchoRamSymmetric ==
  LET target == last.hi * 256 + last.lo
      k == target % 8192
  IN (/\ last.kind = "op" /\ last.op = 234
      /\ target >= 49152 /\ target <= 65023 /\ k <= 7679) =>
       /\ Bus_read(bus, 49152 + k) = last.regs.a
       /\ Bus_read(bus, 57344 + k) = last.regs.a

\* ---------------------------------------------------------------- SpecRam
\* A cartridge with 32 KiB of RAM (ROM only, MBC1, MBC3 or MBC5); the guest writes
\* to the RAM-enable register, the RAM-bank / RTC-select register, the latch
\* register and the first cartridge-RAM address. obs.lat is the value of the last
\* write to 0x6000-0x7FFF (-1: none yet).
InitRam ==
  /\ \E k \in {0, 3, 19, 27} : SetCoreInit(GbCore_new(Image(32768, k, 3)))
  /\ last = NoLast /\ host = NoHost /\ saved = NoSave
  /\ obs = [lat |-> -1]

RamWrite ==
  \E addr \in {0, 16384, 24576, 40960}, val \in {0, 1, 8, 26} :
    /\ ~Bus_write(bus, addr, val).oob
    /\ bus' = Bus_write(bus, addr, val)
    /\ last' = [NoLast EXCEPT !.kind = "write", !.addr = addr, !.val = val]
    /\ obs' = [lat |-> IF addr = 24576 THEN val ELSE obs.lat]
    /\ UNCHANGED <<regs, clock, halted, ime, ime_pending, host, saved>>

SpecRam == InitRam /\ [][RamWrite]_vars

\* C26: cartridge RAM is gated by ram_enable: while it is false every read in
\* 0xA000-0xBFFF returns 0xFF and every write there leaves cartridge RAM and the
\* RTC registers unchanged; ram_enable is false initially, and afterwards true
\* exactly when the most recent write to 0x0000-0x1FFF (MBC1/MBC3/MBC5) had low
\* nibble 0x0A.
C26_CartRamGated ==
  /\ ~bus.mbc.ram_enable
  /\ [][/\ ~bus'.mbc.ram_enable =>
             Bus_read(bus', 40960) = 255 /\ Bus_read(bus', 49151) = 255
        /\ (~bus.mbc.ram_enable /\ last'.addr = 40960) =>
             bus'.ram = bus.ram /\ bus'.mbc.rtc_reg = bus.mbc.rtc_reg
        /\ bus'.mbc.ram_enable =
             (IF last'.addr <= 8191 /\ bus.mbc.kind \in {"Mbc1", "Mbc3", "Mbc5"}
              THEN last'.val % 16 = 10 ELSE bus.mbc.ram_enable)
       ]_vars

\* RAM that was written while enabled (0x1A -> 0x0000, then 8 -> 0xA000), then
\* disabled, and a write of 1 to 0xA000 that left it alone; the read gives 0xFF
C26_Witness ==
  /\ bus.mbc.kind = "Mbc5"
  /\ ~bus.mbc.ram_enable
  /\ bus.ram[0] = 8
  /\ last.addr = 40960 /\ last.val = 1
  /\ Bus_read(bus, 40960) = 255

\* C27: MBC3 RTC latch: in any sequence of writes to 0x6000-0x7FFF, whenever a
\* write of 0 is immediately followed (as the next write to that range) by a write
\* of 1, rtc_latch becomes a copy of the live rtc_reg at that moment; no other
\* write changes rtc_latch, and RTC reads through 0xA000-0xBFFF return the latched
\* value, not the live one.
C27_RtcLatch ==
  [][bus.mbc.kind = "Mbc3" =>
       /\ IF last'.addr = 24576 /\ obs.lat = 0 /\ last'.val = 1
          THEN bus'.mbc.rtc_latch = bus.mbc.rtc_reg
          ELSE bus'.mbc.rtc_latch = bus.mbc.rtc_latch
       /\ (bus'.mbc.ram_enable /\ bus'.mbc.rtc_sel # 255) =>
            Bus_read(bus', 40960) = bus'.mbc.rtc_latch[bus'.mbc.rtc_sel + 1]
    ]_vars

\* C28: on an MBC2 cartridge (header byte 0x05 or 0x06) a guest write with low
\* nibble 0x0A to the RAM-enable region sets ram_enable, and a write to the
\* ROM-bank region makes rom_bank the written bank (0 remapped to 1).
C28_Mbc2Registers ==
  (bus.mbc.kind = "Mbc2" /\ last.kind = "write") =>
    /\ (last.addr <= 8191 /\ last.val % 16 = 10) => bus.mbc.ram_enable
    /\ (last.addr >= 8192 /\ last.addr <= 16383 /\ last.val <= 15) =>
         bus.mbc.rom_bank = (IF last.val = 0 THEN 1 ELSE last.val)

\* ---------------------------------------------------------------- SpecLcd
\* A fresh core (LCD on) whose step() calls are followed at the level of the bus:
\* the instruction makes at most one write - LCDC off or on, STAT with the HBlank
\* interrupt enabled, IF cleared - and the cycles it returned are fanned out by
\* step_subsystems.
MaxLcdCycles == 600
MaxLcdWrites == 3

InitLcd ==
  /\ SetCoreInit(GbCore_new(Rom(0, 0, << >>)))
  /\ last = NoLast /\ host = NoHost /\ saved = NoSave
  /\ obs = [cycles |-> 0]

LcdStep ==
  /\ \E c \in StepCycles :
       /\ obs.cycles + c <= MaxLcdCycles
       /\ obs' = [cycles |-> obs.cycles + c]
       /\ \/ /\ bus' = step_subsystems(bus, c)
             /\ last' = [NoLast EXCEPT !.kind = "run"]
             /\ host' = host
          \/ \E w \in {<<65344, 17>>, <<65344, 145>>, <<65345, 8>>, <<65295, 0>>} :
               /\ host.steps < MaxLcdWrites
               /\ bus' = step_subsystems(Bus_write(bus, w[1], w[2]), c)
               /\ last' = [NoLast EXCEPT !.kind = "write", !.addr = w[1], !.val = w[2]]
               /\ host' = [host EXCEPT !.steps = @ + 1]
  /\ UNCHANGED <<regs, clock, halted, ime, ime_pending, saved>>

\* Bus::write(0xFF41, v) on its own, as the instruction's write leaves the bus
\* before the cycles are fanned out
LcdStatWrite ==
  /\ host.steps < MaxLcdWrites
  /\ \E v \in {120, 135} :
       /\ bus' = Bus_write(bus, 65345, v)
       /\ last' = [NoLast EXCEPT !.kind = "stat", !.addr = 65345, !.val = v]
  /\ host' = [host EXCEPT !.steps = @ + 1]
  /\ UNCHANGED <<regs, clock, halted, ime, ime_pending, saved, obs>>

SpecLcd == InitLcd /\ [][LcdStep \/ LcdStatWrite]_vars

\* C29: while the LCD is disabled (LCDC bit 7 clear) no PPU interrupt is raised:
\* no step() executed with LCDC bit 7 clear sets IF bit 0 (VBlank) or IF bit 1
\* (STAT), whatever the PPU state was when the LCD was disabled.  (A bit of IF is
\* set by the step when it is set afterwards and was clear in IF as the
\* instruction left it.)
C29_NoPpuInterruptLcdOff ==
  [][BitAnd(bus.ppu.lcdc, 128) = 0 /\ BitAnd(bus'.ppu.lcdc, 128) = 0 =>
       LET before == IF last'.addr = 65295 THEN last'.val ELSE bus.if_reg
       IN \A b \in {1, 2} : BitAnd(bus'.if_reg, b) # 0 => BitAnd(before, b) # 0
    ]_vars

\* C30: while the LCD is disabled (LCDC bit 7 clear), a guest read of LY (0xFF44)
\* returns 0, whatever scanline the PPU was on when the LCD was disabled.
C30_LyZeroLcdOff ==
  BitAnd(bus.ppu.lcdc, 128) = 0 => Bus_read(bus, 65348) = 0

\* C31: LYC coincidence: whenever LY changes to a value equal to LYC (on every
\* scanline advance, the wrap from line 153 back to 0 included), STAT bit 2 is set
\* in that step and, if STAT bit 6 is set, a STAT interrupt (IF bit 1) is raised;
\* when LY changes to a value different from LYC, STAT bit 2 is cleared.
C31_LycCoincidence ==
  [][bus'.ppu.ly # bus.ppu.ly =>
       IF bus'.ppu.ly = bus'.ppu.lyc
       THEN /\ BitAnd(bus'.ppu.stat, 4) # 0
            /\ BitAnd(bus'.ppu.stat, 64) # 0 => BitAnd(bus'.if_reg, 2) # 0
       ELSE BitAnd(bus'.ppu.stat, 4) = 0
    ]_vars

\* C32: a guest write to STAT (0xFF41) changes only bits 3-6: bits 0-1 (mode) and
\* bit 2 (LYC coincidence) are unchanged by the write, and every read of 0xFF41
\* has bit 7 set.
C32_StatWriteThrough ==
  [][/\ Bus_read(bus', 65345) >= 128
     /\ last'.kind = "stat" =>
          /\ bus'.ppu.stat % 8 = bus.ppu.stat % 8
          /\ (bus'.ppu.stat \div 8) % 16 = (last'.val \div 8) % 16
          /\ bus'.ppu.stat \div 128 = bus.ppu.stat \div 128
          /\ [bus' EXCEPT !.ppu.stat = bus.ppu.stat] = bus
    ]_vars

\* 0x87 written in HBlank of line 0 with the HBlank interrupt enabled before: the
\* enable bits are cleared, the mode bits still read HBlank, and the read has bit 7
C32_Witness ==
  /\ last.kind = "stat" /\ last.val = 135
  /\ bus.ppu.mode = HBlank
  /\ bus.ppu.stat = 0
  /\ bus.if_reg = 2
  /\ Bus_read(bus, 65345) = 128

\* ---------------------------------------------------------------- SpecSub
\* A core runs the first instructions of its cartridge, which set TAC = 5 and
\* the HBlank STAT enable (LD A,0x0D; LDH (0x07),A; LDH (0x41),A) and, in the
\* second program, switch to double speed (LD A,1; LDH (0x4D),A; STOP). From
\* then on the host calls Bus::step_subsystems with cycle counts a step()
\* passes and with an odd one. obs counts the T-cycles the subsystems were given.
SubPrograms ==
  {<<62, 13, 224, 7, 224, 65>>, <<62, 13, 224, 7, 224, 65, 62, 1, 224, 77, 16, 0>>}
SubCycles == {4, 5, 12, 20}

\* step() calls before the cycle counts are left open, and T-cycles followed
SubBootSteps == 6
MaxSubCycles == 70300

InitSub ==
  /\ \E prog \in SubPrograms : SetCoreInit(GbCore_new(Rom(0, 0, prog)))
  /\ last = NoLast
  /\ host = NoHost
  /\ saved = NoSave
  /\ obs = [cycles |-> 0]

SubBoot ==
  /\ host.steps < SubBootSteps
  /\ DoStep
  /\ host' = [host EXCEPT !.steps = @ + 1]
  /\ UNCHANGED <<saved, obs>>

SubStep ==
  /\ host.steps >= SubBootSteps
  /\ \E c \in SubCycles :
       LET n == IF bus.double_speed THEN (c + 1) \div 2 ELSE c
       IN /\ obs.cycles + n <= MaxSubCycles
          /\ bus' = step_subsystems(bus, c)
          /\ last' = [NoLast EXCEPT !.kind = "sub", !.val = c]
          /\ obs' = [cycles |-> obs.cycles + n]
  /\ UNCHANGED <<regs, clock, halted, ime, ime_pending, host, saved>>

SpecSub == InitSub /\ [][SubBoot \/ SubStep]_vars

\* the dot of the frame the PPU stands at
FrameDot(p) ==
  p.ly * DOTS_PER_LINE + p.dot
    + (CASE p.mode = Drawing -> PPU_MODE2_CYCLES
         [] p.mode = HBlank -> PPU_MODE2_CYCLES + PPU_MODE3_CYCLES
         [] OTHER -> 0)

\* the T-cycle of the 8-step frame sequencer round the APU stands at
SeqCycle(a) == a.fs_counter * 8192 + a.fs_div

C34_SpeedSwitch ==
  [][LET stop == last'.kind = "op" /\ last'.op = 16
         key1 == last'.kind = "op" /\ last'.op = 224 /\ last'.lo = 77
     IN /\ bus'.double_speed =
             (IF stop /\ bus.speed_switch_armed THEN ~bus.double_speed
              ELSE bus.double_speed)
        /\ (stop => ~bus'.speed_switch_armed)
        /\ (key1 => bus'.speed_switch_armed = (regs.a % 2 = 1))
        /\ (~stop /\ ~key1 => bus'.speed_switch_armed = bus.speed_switch_armed)
        /\ (BitAnd(Bus_read(bus', 65357), 128) # 0) = bus'.double_speed
    ]_vars

\* the second STOP of the speed-switch program has run: the first one switched to
\* double speed and disarmed, the second changed nothing, 0xFF4D reads 0x80
C34_Witness ==
  /\ last.kind = "op" /\ last.op = 16 /\ last.regs.pc = 262
  /\ bus.double_speed /\ ~bus.speed_switch_armed
  /\ Bus_read(bus, 65357) = 128

\* ---------------------------------------------------------------- SpecApu
\* The guest writes sound registers on a fresh core - NR10 = 0x11 (sweep period
\* 1, shift 1), NR11 = 0x3F and 0x00, NR12 and NR42 = 0xF3, NR13 = 0x40, and
\* the trigger bit to NR14, NR24, NR34 and NR44 - and then the core runs:
\* Bus::step_subsystems is called with 24 T-cycles until the frame sequencer has
\* passed its first sweep clock. obs counts the T-cycles passed, and the sweep
\* clocks since square 1 was last triggered with a sweep period and shift set.
ApuWrites ==
  {<<65296, 17>>, <<65297, 63>>, <<65297, 0>>, <<65298, 243>>, <<65299, 64>>,
   <<65300, 128>>, <<65305, 128>>, <<65310, 128>>, <<65313, 243>>, <<65315, 128>>}

MaxApuWrites == 4
MaxApuCycles == 16400

InitApu ==
  /\ SetCoreInit(GbCore_new(Rom(0, 0, << >>)))
  /\ last = NoLast
  /\ host = NoHost
  /\ saved = NoSave
  /\ obs = [cycles |-> 0, sweeps |-> 0, trig |-> FALSE]

ApuWrite ==
  /\ host.steps < MaxApuWrites
  /\ obs.cycles = 0
  /\ \E w \in ApuWrites :
       /\ bus' = Bus_write(bus, w[1], w[2])
       /\ last' = [NoLast EXCEPT !.kind = "write", !.addr = w[1], !.val = w[2]]
       /\ obs' = IF w[1] = 65300 /\ w[2] >= 128
                 THEN [obs EXCEPT !.sweeps = 0,
                                  !.trig = BitAnd(bus.apu.sq1.nr0, 112) # 0
                                             /\ BitAnd(bus.apu.sq1.nr0, 7) # 0]
                 ELSE obs
  /\ host' = [host EXCEPT !.steps = @ + 1]
  /\ UNCHANGED <<regs, clock, halted, ime, ime_pending, saved>>

ApuStep ==
  /\ obs.cycles + 24 <= MaxApuCycles
  /\ bus' = step_subsystems(bus, 24)
  /\ last' = [NoLast EXCEPT !.kind = "sub", !.val = 24]
  /\ obs' = [obs EXCEPT !.cycles = @ + 24,
                        !.sweeps = IF bus'.apu.fs_counter # bus.apu.fs_counter
                                      /\ bus'.apu.fs_counter \in {2, 6}
                                   THEN @ + 1 ELSE @]
  /\ UNCHANGED <<regs, clock, halted, ime, ime_pending, host, saved>>

SpecApu == InitApu /\ [][ApuWrite \/ ApuStep]_vars

\* C35: after square 1 is triggered with NR10 period p # 0 and shift s # 0, every
\* p-th sweep clock of the frame sequencer (steps 2 and 6) computes
\* new = shadow +/- (shadow >> s); if new > 2047 the channel is disabled, otherwise
\* the channel's frequency registers (NR13 and the low 3 bits of NR14) and the
\* shadow are updated to new.
C35_SweepUpdatesFrequency ==
  [][LET q  == bus.apu.sq1
         p  == BitAnd(q.nr0 \div 16, 7)
         s  == BitAnd(q.nr0, 7)
         d  == q.sweep_shadow \div (2 ^ s)
         nw == IF BitAnd(q.nr0, 8) # 0 THEN q.sweep_shadow - d ELSE q.sweep_shadow + d
     IN (/\ obs.trig /\ p # 0 /\ s # 0
         /\ obs'.sweeps = obs.sweeps + 1
         /\ obs'.sweeps % p = 0)
        => IF nw > 2047 THEN ~bus'.apu.sq1.enabled
           ELSE /\ freq_of(bus'.apu.sq1.nr3, bus'.apu.sq1.nr4) = nw
                /\ bus'.apu.sq1.sweep_shadow = nw
    ]_vars

\* C36: for each of the four channels, a write to its NRx4 register with bit 7 set
\* enables the channel, reloads its frequency timer, reloads its length counter if
\* it is zero (to 64, or 256 for the wave channel) and leaves a non-zero length
\* counter as it is, and reloads the envelope volume and envelope timer from NRx2.
C36_TriggerReloads ==
  [][(last'.kind = "write" /\ last'.val >= 128
        /\ last'.addr \in {65300, 65305, 65310, 65315}) =>
       LET a == bus.apu
           b == bus'.apu
           sq(o, n) ==
             /\ n.enabled
             /\ n.freq_timer = (2048 - freq_of(n.nr3, n.nr4)) * 4
             /\ n.len_timer = (IF o.len_timer = 0 THEN 64 ELSE o.len_timer)
             /\ n.volume = n.nr2 \div 16
             /\ n.env_timer = n.nr2 % 8
       IN CASE last'.addr = 65300 -> sq(a.sq1, b.sq1)
            [] last'.addr = 65305 -> sq(a.sq2, b.sq2)
            [] last'.addr = 65310 ->
                 /\ b.wave.enabled
                 /\ b.wave.freq_timer = (2048 - freq_of(b.wave.nr3, b.wave.nr4)) * 2
                 /\ b.wave_len = (IF a.wave_len = 0 THEN 256 ELSE a.wave_len)
            [] OTHER ->
                 /\ b.noise.enabled
                 /\ b.noise.freq_timer =
                      (IF b.noise.nr3 % 8 = 0 THEN 8 ELSE (b.noise.nr3 % 8) * 16)
                        * 2 ^ (b.noise.nr3 \div 16)
                 /\ b.noise_len = (IF a.noise_len = 0 THEN 64 ELSE a.noise_len)
                 /\ b.noise.volume = b.noise.nr2 \div 16
                 /\ b.noise.env_timer = b.noise.nr2 % 8
    ]_vars

\* C37: with the LCD enabled and at most 24 cycles per call, after every Ppu::step
\* the dot counter is strictly less than the duration of the current mode (80 in
\* OAMScan, 172 in Drawing, 204 in HBlank, 456 in VBlank), LY is in 0..153,
\* LY < 144 in OAMScan, Drawing and HBlank, and LY >= 144 in VBlank.
C37_PpuTimingBounds ==
  LET p == bus.ppu
  IN BitAnd(p.lcdc, 128) # 0 =>
       /\ p.dot >= 0
       /\ p.dot < (CASE p.mode = OamScan -> 80
                     [] p.mode = Drawing -> 172
                     [] p.mode = HBlank -> 204
                     [] OTHER -> 456)
       /\ p.ly \in 0 .. 153
       /\ (p.mode \in {OamScan, Drawing, HBlank} => p.ly < 144)
       /\ (p.mode = VBlank => p.ly >= 144)

\* the last dots of line 153, in the second frame, reached by a 24-cycle call
C37_Witness ==
  /\ last.kind = "ppu" /\ last.val = 24
  /\ obs.wraps = 1
  /\ bus.ppu.mode = VBlank /\ bus.ppu.ly = 153 /\ bus.ppu.dot >= 452

\* C38: pending interrupts are sticky. A bit set in IF is cleared only by the
\* interrupt dispatch that services that bit or by a guest write to 0xFF0F: halted
\* steps, steps executed with IME clear and subsystem advances never clear an IF
\* bit, and a dispatch clears no IF bit other than the one it services.
C38_PendingInterruptsSticky ==
  [][LET cleared == BitClear(bus.if_reg, bus'.if_reg)
         pending == BitAnd(BitAnd(bus.ie, bus.if_reg), 31)
         \* LDH (0x0F),A; LD (0xFF0F),A; LD (0xFF0E),SP and LD (0xFF0F),SP
         writes_if ==
           /\ last'.kind = "op"
           /\ \/ last'.op = 224 /\ last'.lo = 15
              \/ last'.op = 234 /\ last'.lo = 15 /\ last'.hi = 255
              \/ last'.op = 8 /\ last'.lo \in {14, 15} /\ last'.hi = 255
     IN CASE last'.kind = "irq" ->
               \E b \in 0 .. 4 : /\ cleared = 2 ^ b
                                 /\ pending % (2 ^ (b + 1)) = 2 ^ b
                                 /\ regs'.pc = 64 + 8 * b
          [] last'.kind = "halt" -> cleared = 0
          [] OTHER -> cleared # 0 => writes_if
    ]_vars

\* a halted step woke the core for the timer interrupt (IE = IF = 0x04) and left
\* the bit pending
C38_Witness ==
  /\ last.kind = "halt" /\ ~halted
  /\ bus.ie = 4 /\ bus.if_reg = 4
  /\ ~ime

\* C39: the VRAM bank selector stays in range. In every state reachable through
\* step(), guest bus writes and successful load_state calls on well-formed save
\* records, vram_bank is 0 or 1, so that indexing the two VRAM banks in Bus::read,
\* Bus::write and step_subsystems is always in bounds.
C39_VramBankInRange == bus.vram_bank \in {0, 1}

\* ---------------------------------------------------------------- SpecSel
\* An MBC3 cartridge with 32 KiB of RAM: the guest enables and disables the RAM,
\* writes the values around the two selector ranges (0..7 and 0x08..0x0C) to
\* both ends of 0x4000-0x5FFF, and writes to 0xA000.
SelWrites ==
  {<<0, 10>>, <<0, 0>>, <<40960, 1>>}
    \cup {<<16384, v>> : v \in {0, 7, 8, 12, 13, 255}}
    \cup {<<24575, v>> : v \in {7, 12, 13}}

InitSel ==
  /\ SetCoreInit(GbCore_new(Image(32768, 19, 3)))
  /\ last = NoLast
  /\ host = NoHost
  /\ saved = NoSave
  /\ obs = NoObs

SelWrite ==
  \E w \in SelWrites : Written_to(Bus_write(bus, w[1], w[2]), w[1], w[2])

SpecSel == InitSel /\ [][SelWrite]_vars

\* ram_bank <= 7, and rtc_sel is 0xFF or an index of the five RTC registers
SelInRange(m) ==
  /\ m.ram_bank \in 0 .. 7
  /\ m.rtc_sel \in {255} \cup (0 .. 4)
  /\ (m.rtc_sel # 255 => m.rtc_sel + 1 \in DOMAIN m.rtc_reg \cap DOMAIN m.rtc_latch)

\* C40: after any sequence of guest writes on an MBC3 cartridge, ram_bank <= 7 and
\* rtc_sel is either 0xFF (no RTC register selected) or in 0..4; a write of a
\* value 0..7 to 0x4000-0x5FFF deselects the RTC, and a write of a value above 0x0C
\* changes neither ram_bank nor rtc_sel; hence the RTC arrays are never indexed
\* out of bounds.
C40_Mbc3SelectorRanges ==
  /\ SelInRange(bus.mbc)
  /\ [][/\ SelInRange(bus'.mbc)
        /\ (last'.addr \in 16384 .. 24575 /\ last'.val <= 7
              => bus'.mbc.rtc_sel = 255 /\ bus'.mbc.ram_bank = last'.val)
        /\ (last'.addr \in 16384 .. 24575 /\ last'.val > 12
              => /\ bus'.mbc.ram_bank = bus.mbc.ram_bank
                 /\ bus'.mbc.rtc_sel = bus.mbc.rtc_sel)
       ]_vars

\* RAM bank 7 and RTC register 4 (0x0C) are selected, and a write of 0x0D to
\* 0x4000 has left both
C40_Witness ==
  /\ bus.mbc.kind = "Mbc3"
  /\ last.addr = 16384 /\ last.val = 13
  /\ bus.mbc.ram_bank = 7 /\ bus.mbc.rtc_sel = 4

====
